---- MODULE Spec2Model ----
(***************************************************************************)
(* Model of the auto-review code-review flow: the orchestrating use cases  *)
(* (CodeReviewService.reviewMergeRequest, AnalyzeMergeRequestUseCase       *)
(* .execute with and without a review store), the provider clients         *)
(* (GitlabRepository, GithubRepository, GithubService, GitlabService) and  *)
(* the diff filter of the AI service.  Every network call is one step; its *)
(* result is "ok" (2xx), "rejected" (a non-2xx response) or "error" (the   *)
(* transport throws).  Strings are sequences of tokens, so that            *)
(* String.includes is a search for a contiguous sub-sequence.              *)
(***************************************************************************)
EXTENDS Integers, Sequences, FiniteSets, TLC

\* ------------------------------------------------------------------ bounds
MaxComments == 2
MaxConcComments == 1
MaxFiles == 2
MaxChanges == 1
MaxRespComments == 2
MaxLine == 2

Tasks == {1, 2}
Requests == {"r1", "r2"}
Outcomes == {"ok", "rejected", "error"}

\* ----------------------------------------------------------------- strings
Includes(s, m) ==
  \E k \in 1..(Len(s) - Len(m) + 1) : SubSeq(s, k, k + Len(m) - 1) = m

MarkerAiCodeReview == <<"AI ", "Code Review">>
MarkerSummaryHeading == <<"## ", "AI ", "Code Review", " Summary">>
MarkerBoldCodeReview == <<"**", "Code Review", "**">>
MarkerCodeReviewColon == <<"Code Review", ":">>
MarkerBoldCodeReviewColon == <<"**", "Code Review", "**", ":">>

\* body of a positioned comment: `Code Review: ${content}`
PositionedBody(content) == <<"Code Review", ":", " ">> \o content

\* body of the plain-note fallback:
\* `**Code Review**: ${filePath} (line ${lineNumber})\n\n${content}`
SimpleNoteBody(path, line, content) ==
  <<"**", "Code Review", "**", ":", " ", path, " (line ", line, ")", "\n\n">> \o content

\* body of the summary: `## AI Code Review Summary\n\n${summary}`;
\* GitlabService posts the summary as it is, without a heading
SummaryBody(p, summary) ==
  IF p = "GitlabService" THEN summary
  ELSE <<"## ", "AI ", "Code Review", " Summary", "\n\n">> \o summary

\* ---------------------------------------------------------------- providers
Providers == {"GitlabRepository", "GithubRepository", "GithubService", "GitlabService"}
IsGitlab(p) == p \in {"GitlabRepository", "GitlabService"}
\* GithubService and GitlabService call through axios, which rejects the
\* promise on a non-2xx response; the repositories use fetch and test response.ok
UsesAxios(p) == p \in {"GithubService", "GitlabService"}

\* the endpoint (collection of the request) a post of the provider lands in
PositionedEndpoint(p) == IF IsGitlab(p) THEN "notes" ELSE "pulls"
NoteEndpoint(p) == IF IsGitlab(p) THEN "notes" ELSE "issues"
SummaryEndpoint(p) ==
  IF IsGitlab(p) THEN "notes" ELSE IF p = "GithubService" THEN "reviews" ELSE "issues"

BotUsername == "github-review-bot"

\* GitlabRepository.identifyAiNotes / GithubService.isAiGeneratedComment /
\* the two filters of GithubRepository.clearPreviousComments
IsAiBody(p, ep, body) ==
  CASE p = "GitlabRepository" ->
         \/ Includes(body, MarkerAiCodeReview)
         \/ Includes(body, MarkerBoldCodeReview)
         \/ Includes(body, MarkerCodeReviewColon)
         \/ Includes(body, MarkerBoldCodeReviewColon)
    [] p = "GithubRepository" ->
         IF ep = "issues"
         THEN \/ Includes(body, MarkerAiCodeReview)
              \/ Includes(body, MarkerSummaryHeading)
         ELSE Includes(body, MarkerCodeReviewColon)
    [] OTHER ->
         \/ Includes(body, MarkerAiCodeReview)
         \/ Includes(body, MarkerSummaryHeading)
         \/ Includes(body, MarkerBoldCodeReview)
         \/ Includes(body, MarkerCodeReviewColon)
         \/ Includes(body, MarkerBoldCodeReviewColon)

\* which comments of a fetched list clearPreviousComments goes on to delete
IdentifyAi(p, ep, list) ==
  {n \in list : /\ n.body # <<>>
                /\ \/ IsAiBody(p, ep, n.body)
                   \/ (p = "GithubService" /\ n.login = BotUsername)}

\* ------------------------------------------------------------------- state
VARIABLES
  sched,           \* "seq": review 2 starts after review 1 returned; "conc": both overlap
  orch,            \* the orchestrating flow in use
  prov,            \* the provider client (one long-lived instance) in use
  postSummary,     \* CodeReviewService.reviewMergeRequest's postSummary argument
  req,             \* req[t]: the request review t is about
  task,            \* task[t]: position and locals of review t
  notes,           \* notes[r]: the comments present on request r
  nextId,          \* nextId[r]: id the provider gives the next comment of r
  diffReferences,  \* GitlabRepository.diffReferences, a field of the instance
  store,           \* store[t]: status the review store holds for review t
  fFiles, fResponse, fResult,  \* input and result of filterCommentsForDiff
  pRaw, pOut,                  \* raw model output and what analyzeCode makes of it
  dParser, dIn, dOut,          \* a diff parser, the diff text it is given, its result
  wIn, wOut,                   \* a webhook request and what the controller made of it
  repositories,    \* fields of the GitlabRepository and GithubRepository instances
  aiFactory,       \* AIFactoryService: provider and models selected last
  served,          \* the createReview request served last, and by what
  gImpl, gIn, gOut \* a GithubRepository, a file listing, what getMergeRequestFiles made of it

vars == <<sched, orch, prov, postSummary, req, task, notes, nextId,
          diffReferences, store, fFiles, fResponse, fResult, pRaw, pOut,
          dParser, dIn, dOut, wIn, wOut,
          repositories, aiFactory, served, gImpl, gIn, gOut>>
cfgVars == <<sched, orch, prov, postSummary, req>>
filterVars == <<fFiles, fResponse, fResult, pRaw, pOut, dParser, dIn, dOut, wIn, wOut,
                repositories, aiFactory, served, gImpl, gIn, gOut>>
ctlVars == <<repositories, aiFactory, served, gImpl, gIn, gOut>>

Orchestrators == {"CodeReviewService", "UseCase", "StoreUseCase"}

\* CodeReviewService takes a VcsService (5-argument submitComment); the use
\* cases take a VersionControlRepository (submitComment with a comment object)
ProvidersOf(o) ==
  IF o = "CodeReviewService" THEN {"GithubService", "GitlabService"}
  ELSE {"GitlabRepository", "GithubRepository"}

\* a revision identifier is a token sequence; <<>> is null / undefined / ''
NullSha == <<>>
NullRefs == [baseSha |-> NullSha, startSha |-> NullSha, headSha |-> NullSha]

\* diff_refs of the /changes response of request r; GitLab may leave it out
DiffRefsOf(r) ==
  [defined |-> TRUE, base_sha |-> <<"base", r>>, start_sha |-> <<"start", r>>,
   head_sha |-> <<"head", r>>]
DiffRefsMissing ==
  [defined |-> FALSE, base_sha |-> NullSha, start_sha |-> NullSha, head_sha |-> NullSha]

\* storeDiffReferences: `diffRefs?.base_sha || null` for each of the three
storeDiffReferences(diffRefs) ==
  IF ~diffRefs.defined THEN NullRefs
  ELSE [baseSha |-> diffRefs.base_sha, startSha |-> diffRefs.start_sha,
        headSha |-> diffRefs.head_sha]

NoResult == [done |-> FALSE, comments |-> <<>>, summary |-> <<>>]

NoOutcome == [state |-> "none", status |-> "none", summary |-> <<>>, comments |-> 0]

\* analyzeCode has not settled
NoAnalysis == [state |-> "none", via |-> "none", err |-> <<>>, comments |-> <<>>,
               summary |-> <<>>]

\* no diff text has been parsed
NoChanges == [done |-> FALSE, changes |-> <<>>, from |-> <<>>]

\* no webhook request has arrived / been handled
NoRequest == [provider |-> "none"]
NoReply == [state |-> "none", status |-> 0, message |-> "", started |-> <<>>]

\* the two repository instances as their constructors leave them
\* (GITLAB_API_URL, GITLAB_API_TOKEN, GITHUB_API_URL, GITHUB_API_TOKEN)
Constructed ==
  [gitlab |-> [apiBaseUrl |-> "https://gitlab.com/api/v4", apiToken |-> "GITLAB_API_TOKEN"],
   github |-> [apiBaseUrl |-> "https://api.github.com", apiToken |-> "GITHUB_API_TOKEN"]]

\* no createReview request has been served
NoService == [vcsType |-> "none"]

\* the application after start-up: currentProvider = AIProvider.CLAUDE, no
\* model chosen by a request yet
InitController ==
  /\ repositories = Constructed
  /\ aiFactory = [currentProvider |-> "claude", claudeModel |-> "default",
                  openaiModel |-> "default"]
  /\ served = NoService

\* getMergeRequestFiles has not been called
NoFiles == [state |-> "none", files |-> <<>>, message |-> <<>>]
InitListing == gImpl = "none" /\ gIn = <<>> /\ gOut = NoFiles

InitTask ==
  [pc |-> "idle", phase |-> 1, todo |-> <<>>, files |-> "none",
   n |-> 0, summary |-> <<>>, i |-> 0,
   att |-> <<>>, sub |-> "none",
   accepted |-> 0, failedSubs |-> 0,
   posted |-> FALSE, deleted |-> FALSE, summaryPosts |-> 0,
   clean |-> TRUE, err |-> <<>>, statuses |-> <<>>, out |-> NoOutcome]

\* a comment a person left on the request before the first review
HumanNote(p) ==
  [id |-> 0, ep |-> NoteEndpoint(p), body |-> <<"LGTM">>, login |-> "alice", by |-> 0]

\* the comments the request may hold before the first review: that one, or
\* (GithubService, which also looks at the login of a review comment) a
\* remark on a line written from the account named by GITHUB_BOT_USERNAME
EarlierNotes(p) ==
  {HumanNote(p)} \cup
    (IF p = "GithubService"
     THEN {[HumanNote(p) EXCEPT !.ep = "pulls", !.login = BotUsername]}
     ELSE {})

InitCommon ==
  /\ orch \in Orchestrators
  /\ prov \in ProvidersOf(orch)
  /\ postSummary \in (IF orch = "CodeReviewService" THEN BOOLEAN ELSE {TRUE})
  /\ task = [t \in Tasks |-> InitTask]
  /\ \E first \in EarlierNotes(prov) : notes = [r \in Requests |-> {first}]
  /\ nextId = [r \in Requests |-> 1]
  /\ diffReferences = NullRefs
  /\ store = [t \in Tasks |-> "none"]
  /\ fFiles = <<>>
  /\ fResponse = [comments |-> <<>>, summary |-> <<>>]
  /\ fResult = NoResult
  /\ pRaw = <<>>
  /\ pOut = NoAnalysis
  /\ dParser = "none" /\ dIn = <<>> /\ dOut = NoChanges
  /\ wIn = NoRequest /\ wOut = NoReply
  /\ InitController /\ InitListing

\* two reviews of the same request, one after the other
Init ==
  /\ sched = "seq"
  /\ req = [t \in Tasks |-> "r1"]
  /\ InitCommon

\* two reviews that overlap in time, of the same or of different requests,
\* started through the use case the webhook controller holds
InitConc ==
  /\ sched = "conc"
  /\ \E r \in Requests : req = [t \in Tasks |-> IF t = 1 THEN "r1" ELSE r]
  /\ InitCommon
  /\ orch = "UseCase"

\* ------------------------------------------------------- orchestrating flow
\* text of an error: the wrapper the provider puts around it, then the cause
Msg(wrapper, res) ==
  <<wrapper, IF res = "rejected" THEN "statusText" ELSE "network error">>

\* `Error during code review: ${error.message}` (CodeReviewService) and
\* `Error: Failed to fetch diff - ${error.message}` (the use cases)
FailedSummary(o, msg) ==
  IF o = "CodeReviewService" THEN <<"Error during code review: ">> \o msg
  ELSE <<"Error: Failed to fetch diff - ">> \o msg

\* the catch block of the flow: an exception of the try block arrives here
OnThrow(s, msg) ==
  IF orch = "StoreUseCase"
  THEN [s EXCEPT !.pc = "fail", !.err = msg, !.statuses = Append(@, "FAILED")]
  ELSE [s EXCEPT !.pc = "returned", !.err = msg,
                 !.statuses = Append(@, "FAILED"),
                 !.out = [state |-> "returned", status |-> "FAILED",
                          summary |-> FailedSummary(orch, msg), comments |-> 0]]

\* the end of the try block, after the comments and the summary
Complete(s) ==
  IF orch = "StoreUseCase"
  THEN [s EXCEPT !.pc = "save", !.statuses = Append(@, "COMPLETED")]
  ELSE [s EXCEPT !.pc = "returned",
                 !.statuses = Append(@, "COMPLETED"),
                 !.out = [state |-> "returned", status |-> "COMPLETED",
                          summary |-> s.summary, comments |-> s.n]]

\* the first statement of the flow once the review object exists
FirstStep(o) == IF o = "StoreUseCase" THEN "create" ELSE "clear"

\* reviewMergeRequest / execute is called: the PENDING review is constructed
Start(t) ==
  /\ task[t].pc = "idle"
  /\ sched = "seq" => \A u \in Tasks : u < t => task[u].pc = "done"
  /\ task' = [task EXCEPT ![t] =
       [@ EXCEPT !.pc = FirstStep(orch),
                 !.statuses = IF orch = "CodeReviewService" THEN <<>> ELSE <<"PENDING">>]]
  /\ UNCHANGED <<cfgVars, notes, nextId, diffReferences, store, filterVars>>

\* await this.reviewRepository.createReview(review), outside the try block
StoreCreate(t) ==
  /\ task[t].pc = "create"
  /\ \E res \in {"ok", "error"} :
       IF res = "ok"
       THEN /\ store' = [store EXCEPT ![t] = "PENDING"]
            /\ task' = [task EXCEPT ![t] =
                 [@ EXCEPT !.pc = "inprogress", !.statuses = Append(@, "IN_PROGRESS")]]
       ELSE /\ store' = store
            /\ task' = [task EXCEPT ![t] =
                 [@ EXCEPT !.pc = "returned", !.clean = FALSE,
                           !.out = [NoOutcome EXCEPT !.state = "raised"]]]
  /\ UNCHANGED <<cfgVars, notes, nextId, diffReferences, filterVars>>

\* await this.reviewRepository.updateReview(updatedReview): IN_PROGRESS
StoreInProgress(t) ==
  /\ task[t].pc = "inprogress"
  /\ \E res \in {"ok", "error"} :
       IF res = "ok"
       THEN /\ store' = [store EXCEPT ![t] = "IN_PROGRESS"]
            /\ task' = [task EXCEPT ![t] = [@ EXCEPT !.pc = "clear"]]
       ELSE /\ store' = store
            /\ task' = [task EXCEPT ![t] =
                 OnThrow([@ EXCEPT !.clean = FALSE], Msg("store: ", res))]
  /\ UNCHANGED <<cfgVars, notes, nextId, diffReferences, filterVars>>

\* savedReview = await updateReview(completedReview); "altered": the store
\* hands back a review whose status is not COMPLETED
StoreSave(t) ==
  /\ task[t].pc = "save"
  /\ \E res \in {"ok", "altered", "error"} :
       CASE res = "ok" ->
              /\ store' = [store EXCEPT ![t] = "COMPLETED"]
              /\ task' = [task EXCEPT ![t] =
                   [@ EXCEPT !.pc = "returned",
                             !.out = [state |-> "returned", status |-> "COMPLETED",
                                      summary |-> task[t].summary, comments |-> task[t].n]]]
         [] res = "altered" ->
              /\ store' = [store EXCEPT ![t] = "COMPLETED"]
              /\ task' = [task EXCEPT ![t] =
                   [@ EXCEPT !.pc = "save2", !.clean = FALSE,
                             !.statuses = Append(@, "COMPLETED")]]
         [] OTHER ->
              /\ store' = store
              /\ task' = [task EXCEPT ![t] =
                   OnThrow([@ EXCEPT !.clean = FALSE], Msg("store: ", res))]
  /\ UNCHANGED <<cfgVars, notes, nextId, diffReferences, filterVars>>

\* return await updateReview(correctedReview)
StoreSave2(t) ==
  /\ task[t].pc = "save2"
  /\ \E res \in {"ok", "error"} :
       IF res = "ok"
       THEN /\ store' = [store EXCEPT ![t] = "COMPLETED"]
            /\ task' = [task EXCEPT ![t] =
                 [@ EXCEPT !.pc = "returned",
                           !.out = [state |-> "returned", status |-> "COMPLETED",
                                    summary |-> task[t].summary, comments |-> task[t].n]]]
       ELSE /\ store' = store
            /\ task' = [task EXCEPT ![t] = OnThrow(@, Msg("store: ", res))]
  /\ UNCHANGED <<cfgVars, notes, nextId, diffReferences, filterVars>>

\* the catch block of the store use case: return await updateReview(failedReview)
StoreFail(t) ==
  /\ task[t].pc = "fail"
  /\ \E res \in {"ok", "error"} :
       IF res = "ok"
       THEN /\ store' = [store EXCEPT ![t] = "FAILED"]
            /\ task' = [task EXCEPT ![t] =
                 [@ EXCEPT !.pc = "returned",
                           !.out = [state |-> "returned", status |-> "FAILED",
                                    summary |-> FailedSummary(orch, task[t].err),
                                    comments |-> 0]]]
       ELSE /\ store' = store
            /\ task' = [task EXCEPT ![t] =
                 [@ EXCEPT !.pc = "returned", !.clean = FALSE,
                           !.out = [NoOutcome EXCEPT !.state = "raised"]]]
  /\ UNCHANGED <<cfgVars, notes, nextId, diffReferences, filterVars>>

\* the caller has the outcome (or the rejection) and the locals of the call
\* are gone; of the run it is remembered only whether it returned COMPLETED
\* with no call having failed
Return(t) ==
  /\ task[t].pc = "returned"
  /\ task' = [task EXCEPT ![t] =
       [InitTask EXCEPT !.pc = "done",
                        !.clean = /\ task[t].clean
                                  /\ task[t].out.state = "returned"
                                  /\ task[t].out.status = "COMPLETED"]]
  /\ UNCHANGED <<cfgVars, notes, nextId, diffReferences, store, filterVars>>

\* --------------------------------------------------- clearPreviousComments
RECURSIVE SortedIds(_)
\* the ids of a fetched list, in the order of the list (oldest first)
SortedIds(ids) ==
  IF ids = {} THEN <<>>
  ELSE LET m == CHOOSE x \in ids : \A y \in ids : x <= y
       IN <<m>> \o SortedIds(ids \ {m})

\* the collection clearPreviousComments lists first / second
ClearEndpoint(p, phase) ==
  CASE IsGitlab(p) -> "notes"
    [] p = "GithubRepository" -> IF phase = 1 THEN "issues" ELSE "pulls"
    [] OTHER -> IF phase = 1 THEN "pulls" ELSE "reviews"

\* what clearPreviousComments does once the deletes of a phase are through
AfterDeletes(p, phase) ==
  IF phase = 1 /\ ~IsGitlab(p) THEN "clear2" ELSE "diff"

\* the ids clearPreviousComments will delete, given what is on the request now
IdsToDelete(p, ep, present) ==
  SortedIds({n.id : n \in IdentifyAi(p, ep, {x \in present : x.ep = ep})})

\* first listing of clearPreviousComments: notes (GitLab), issue comments
\* (GithubRepository), review comments (GithubService)
ClearFetch(t) ==
  /\ task[t].pc = "clear"
  /\ \E res \in Outcomes :
       LET ep == ClearEndpoint(prov, 1)
           ids == IdsToDelete(prov, ep, notes[req[t]])
       IN task' = [task EXCEPT ![t] =
            IF res = "ok"
            THEN [@ EXCEPT !.phase = 1, !.todo = ids,
                           !.pc = IF ids = <<>> THEN AfterDeletes(prov, 1)
                                  ELSE "clear_delete"]
            ELSE \* the error is caught and logged by clearPreviousComments
                 [@ EXCEPT !.pc = "diff", !.clean = FALSE]]
  /\ UNCHANGED <<cfgVars, notes, nextId, diffReferences, store, filterVars>>

\* a deletion loop that gives up at the first failed DELETE
ClearDeleteStopsAtFailure(t) ==
  /\ task[t].pc = "clear_delete"
  /\ \E res \in Outcomes :
       LET id == Head(task[t].todo)
           rest == Tail(task[t].todo)
       IN /\ notes' = IF res = "ok"
                      THEN [notes EXCEPT ![req[t]] = {n \in @ : n.id # id}]
                      ELSE notes
          /\ task' = [task EXCEPT ![t] =
               IF res = "ok"
               THEN [@ EXCEPT !.todo = rest, !.deleted = TRUE,
                              !.pc = IF rest = <<>>
                                     THEN AfterDeletes(prov, task[t].phase)
                                     ELSE "clear_delete"]
               ELSE [@ EXCEPT !.deleted = TRUE, !.clean = FALSE, !.pc = "diff"]]
  /\ UNCHANGED <<cfgVars, nextId, diffReferences, store, filterVars>>

\* one DELETE of the loop over the identified comments; a failure is logged
ClearDelete(t) ==
  /\ task[t].pc = "clear_delete"
  /\ \E res \in Outcomes :
       LET id == Head(task[t].todo)
           rest == Tail(task[t].todo)
       IN /\ notes' = IF res = "ok"
                      THEN [notes EXCEPT ![req[t]] = {n \in @ : n.id # id}]
                      ELSE notes
          /\ task' = [task EXCEPT ![t] =
               [@ EXCEPT !.todo = rest, !.deleted = TRUE,
                         !.clean = @ /\ res = "ok",
                         !.pc = IF rest = <<>> THEN AfterDeletes(prov, task[t].phase)
                                ELSE "clear_delete"]]
  /\ UNCHANGED <<cfgVars, nextId, diffReferences, store, filterVars>>

\* second listing, GitHub only: the review comments (GithubRepository; when
\* the response is not ok they are skipped) or the reviews (GithubService,
\* which only identifies them: GitHub does not let it delete reviews)
ClearFetch2(t) ==
  /\ task[t].pc = "clear2"
  /\ \E res \in Outcomes :
       LET ep == ClearEndpoint(prov, 2)
           ids == IdsToDelete(prov, ep, notes[req[t]])
       IN task' = [task EXCEPT ![t] =
            IF res = "ok" /\ prov = "GithubRepository" /\ ids # <<>>
            THEN [@ EXCEPT !.phase = 2, !.todo = ids, !.pc = "clear_delete"]
            ELSE [@ EXCEPT !.phase = 2, !.pc = "diff",
                           !.clean = @ /\ res = "ok"]]
  /\ UNCHANGED <<cfgVars, notes, nextId, diffReferences, store, filterVars>>

\* ------------------------------------------------------ getMergeRequestFiles
\* first request of getMergeRequestFiles: /changes (GitLab, which also stores
\* the diff references on the instance), the pull request (GithubRepository)
\* or the file listing (GithubService)
FetchDiff(t) ==
  /\ task[t].pc = "diff"
  /\ \E res \in Outcomes :
       CASE res = "ok" /\ IsGitlab(prov) ->
              \E dr \in {DiffRefsOf(req[t]), DiffRefsMissing} :
                /\ diffReferences' = storeDiffReferences(dr)
                /\ task' = [task EXCEPT ![t] =
                     [@ EXCEPT !.pc = "analyze", !.files = "list"]]
         [] res = "ok" /\ ~IsGitlab(prov) ->
              /\ diffReferences' = diffReferences
              /\ task' = [task EXCEPT ![t] = [@ EXCEPT !.pc = "diff2"]]
         [] OTHER ->
              /\ diffReferences' = diffReferences
              /\ task' = [task EXCEPT ![t] =
                   OnThrow([@ EXCEPT !.clean = FALSE],
                           Msg(IF IsGitlab(prov) THEN "Failed to get MR files: "
                               ELSE "Failed to get PR files: ", res))]
  /\ UNCHANGED <<cfgVars, notes, nextId, store, filterVars>>

\* what getMergeRequestFiles of the provider returns for a listing that has
\* (or has not) a file that is neither removed nor binary: GithubRepository
\* returns from inside its loop, so it returns undefined when the loop ends
FilesResult(p, anyReviewable) ==
  IF p = "GithubRepository" /\ ~anyReviewable THEN "undefined" ELSE "list"

\* second request, GitHub only: the file listing (GithubRepository) or the
\* pull request details (GithubService)
FetchDiff2(t) ==
  /\ task[t].pc = "diff2"
  /\ \E res \in Outcomes :
       IF res = "ok"
       THEN \E anyReviewable \in BOOLEAN :
              task' = [task EXCEPT ![t] =
                [@ EXCEPT !.pc = "analyze", !.files = FilesResult(prov, anyReviewable)]]
       ELSE task' = [task EXCEPT ![t] =
              OnThrow([@ EXCEPT !.clean = FALSE], Msg("Failed to get PR files: ", res))]
  /\ UNCHANGED <<cfgVars, notes, nextId, diffReferences, store, filterVars>>

\* ------------------------------------------------------------ submitComment
\* where submitComment starts: GitLab tests the stored references, GitHub
\* first asks for the pull request (its head commit)
SubmitEntry(p, refs) ==
  IF IsGitlab(p)
  THEN IF refs.baseSha # NullSha /\ refs.headSha # NullSha THEN "pos1" ELSE "note"
  ELSE "pr"

\* `if (postSummary && aiResponse.summary)` in CodeReviewService; the use
\* cases submit the summary always
SubmitsSummary(o, ps, summary) ==
  IF o = "CodeReviewService" THEN ps /\ summary # <<>> ELSE TRUE

\* a flow that clears the earlier comments only once its own are posted
AfterLoopClearsLate(s) ==
  IF s.posted /\ ~s.deleted /\ s.phase = 1 /\ s.todo = <<>> /\ s.pc # "clear"
  THEN [s EXCEPT !.pc = "clear"]
  ELSE Complete(s)

\* after the for loop over the comments
AfterLoop(s) ==
  IF SubmitsSummary(orch, postSummary, s.summary)
  THEN [s EXCEPT !.pc = IF prov = "GithubService" THEN "sum_pr" ELSE "summary"]
  ELSE Complete(s)

\* a loop that starts the submitComment calls without awaiting them
LoopStepAllAtOnce(s) ==
  IF s.i < s.n
  THEN [s EXCEPT !.i = s.n, !.pc = SubmitEntry(prov, diffReferences)]
  ELSE AfterLoop(s)

\* head of `for (const comment of comments)`: the next submitComment is called
\* when the previous one has returned (att and sub still tell of the previous
\* call until the new call issues its first request)
LoopStep(s) ==
  IF s.i < s.n
  THEN [s EXCEPT !.i = @ + 1, !.pc = SubmitEntry(prov, diffReferences)]
  ELSE AfterLoop(s)

\* the longest comment list the model returns in a behaviour of the schedule
MaxCommentsOf(sc) == IF sc = "conc" THEN MaxConcComments ELSE MaxComments

\* await this.aiService.analyzeCode(files): prompt, model call, parse, filter
Analyze(t) ==
  /\ task[t].pc = "analyze"
  /\ IF task[t].files = "undefined"
     THEN \* generatePrompt calls files.forEach on undefined
          task' = [task EXCEPT ![t] = OnThrow(@, <<"TypeError: ", "files is undefined">>)]
     ELSE \E res \in Outcomes :
            IF res = "ok"
            THEN \E n \in 0..MaxCommentsOf(sched), sm \in {<<>>, <<"summary text">>} :
                   task' = [task EXCEPT ![t] =
                     LoopStep([@ EXCEPT !.n = n, !.summary = sm])]
            ELSE task' = [task EXCEPT ![t] =
                   OnThrow([@ EXCEPT !.clean = FALSE],
                           Msg("Failed to call Claude API: ", res))]
  /\ UNCHANGED <<cfgVars, notes, nextId, diffReferences, store, filterVars>>

\* account of the API token the provider client posts with
TokenLogin == "token-owner"

\* the comment of the model under submission: path, line and text
CommentPath == "a.js"
CommentLine == "1"
CommentText == <<"text">>

\* a post the provider accepted is on the request from then on
Posted(r, ep, body, t) ==
  [id |-> nextId[r], ep |-> ep, body |-> body, login |-> TokenLogin, by |-> t]

\* the position / anchor a positional request carries: tryPositionedComment
\* reads this.diffReferences when it builds the request (start_sha falls back
\* to base_sha); GitHub sends the commit id it has just fetched for the request
Position(p, refs, r) ==
  IF IsGitlab(p)
  THEN [base_sha |-> refs.baseSha,
        start_sha |-> IF refs.startSha # NullSha THEN refs.startSha ELSE refs.baseSha,
        head_sha |-> refs.headSha]
  ELSE [base_sha |-> NullSha, start_sha |-> NullSha, head_sha |-> <<"head", r>>]

\* how a failed positional request ends: "next" rung, or submitComment throws
PosFailure(p, res) ==
  CASE p = "GitlabRepository" -> IF res = "rejected" THEN "next" ELSE "throw"
    [] p = "GitlabService" -> "next"
    [] p = "GithubRepository" -> IF res = "rejected" THEN "next" ELSE "throw"
    [] OTHER -> "throw"

\* the rung after a failed positional one
NextRung(p, rung) ==
  IF IsGitlab(p) /\ rung = "pos1" THEN "pos2" ELSE "note"

\* how a failed plain note ends: submitComment returns false, or throws
NoteFailure(p, res) ==
  IF ~UsesAxios(p) /\ res = "rejected" THEN "false" ELSE "throw"

\* the requests the submitComment call in progress has issued so far
AttemptsSoFar(s) == IF s.sub = "running" THEN s.att ELSE <<>>

\* GET of the pull request, for its head commit: at the start of GitHub's
\* submitComment and of GithubService.submitReviewSummary
FetchPRDetails(t) ==
  /\ task[t].pc \in {"pr", "sum_pr"}
  /\ \E res \in Outcomes :
       task' = [task EXCEPT ![t] =
         IF task[t].pc = "pr"
         THEN LET a == Append(AttemptsSoFar(task[t]), [rung |-> "pr", res |-> res,
                                            position |-> Position(prov, diffReferences, req[t])])
              IN IF res = "ok"
                 THEN [@ EXCEPT !.pc = "pos1", !.att = a, !.sub = "running"]
                 ELSE OnThrow([@ EXCEPT !.att = a, !.sub = "threw", !.clean = FALSE,
                                        !.failedSubs = @ + 1],
                              Msg("Failed to submit comment: ", res))
         ELSE IF res = "ok"
              THEN [@ EXCEPT !.pc = "summary"]
              ELSE OnThrow([@ EXCEPT !.clean = FALSE],
                           Msg("Failed to submit review summary: ", res))]
  /\ UNCHANGED <<cfgVars, notes, nextId, diffReferences, store, filterVars>>

\* a ladder that goes on to its next rung after an accepted positional request
SubmitPosKeepsClimbing(t) ==
  /\ task[t].pc \in {"pos1", "pos2"}
  /\ \E res \in Outcomes :
       LET r == req[t]
           a == Append(AttemptsSoFar(task[t]), [rung |-> task[t].pc, res |-> res,
                                     position |-> Position(prov, diffReferences, r)])
       IN CASE res = "ok" ->
                 /\ notes' = [notes EXCEPT ![r] = @ \cup
                      {Posted(r, PositionedEndpoint(prov), PositionedBody(CommentText), t)}]
                 /\ nextId' = [nextId EXCEPT ![r] = @ + 1]
                 /\ task' = [task EXCEPT ![t] =
                      [@ EXCEPT !.att = a, !.sub = "running", !.posted = TRUE,
                                !.accepted = @ + 1,
                                !.pc = NextRung(prov, task[t].pc)]]
            [] res # "ok" /\ PosFailure(prov, res) = "next" ->
                 /\ UNCHANGED <<notes, nextId>>
                 /\ task' = [task EXCEPT ![t] =
                      [@ EXCEPT !.att = a, !.sub = "running", !.posted = TRUE,
                                !.pc = NextRung(prov, task[t].pc)]]
            [] OTHER ->
                 /\ UNCHANGED <<notes, nextId>>
                 /\ task' = [task EXCEPT ![t] =
                      OnThrow([@ EXCEPT !.att = a, !.sub = "threw", !.posted = TRUE,
                                        !.clean = FALSE, !.failedSubs = @ + 1],
                              Msg("Failed to submit comment: ", res))]
  /\ UNCHANGED <<cfgVars, diffReferences, store, filterVars>>

\* one positional request: tryPositionedComment(includeOldPath = false / true)
\* of GitLab, the review comment of GitHub
SubmitPos(t) ==
  /\ task[t].pc \in {"pos1", "pos2"}
  /\ \E res \in Outcomes :
       LET r == req[t]
           a == Append(AttemptsSoFar(task[t]), [rung |-> task[t].pc, res |-> res,
                                     position |-> Position(prov, diffReferences, r)])
       IN CASE res = "ok" ->
                 /\ notes' = [notes EXCEPT ![r] = @ \cup
                      {Posted(r, PositionedEndpoint(prov), PositionedBody(CommentText), t)}]
                 /\ nextId' = [nextId EXCEPT ![r] = @ + 1]
                 /\ task' = [task EXCEPT ![t] =
                      LoopStep([@ EXCEPT !.att = a, !.sub = "true", !.posted = TRUE,
                                         !.accepted = @ + 1])]
            [] res # "ok" /\ PosFailure(prov, res) = "next" ->
                 /\ UNCHANGED <<notes, nextId>>
                 /\ task' = [task EXCEPT ![t] =
                      [@ EXCEPT !.att = a, !.sub = "running", !.posted = TRUE,
                                !.pc = NextRung(prov, task[t].pc)]]
            [] OTHER ->
                 /\ UNCHANGED <<notes, nextId>>
                 /\ task' = [task EXCEPT ![t] =
                      OnThrow([@ EXCEPT !.att = a, !.sub = "threw", !.posted = TRUE,
                                        !.clean = FALSE, !.failedSubs = @ + 1],
                              Msg("Failed to submit comment: ", res))]
  /\ UNCHANGED <<cfgVars, diffReferences, store, filterVars>>

\* the plain-note fallback: submitSimpleNote of GitLab, the issue comment of
\* GithubRepository
SubmitNote(t) ==
  /\ task[t].pc = "note"
  /\ \E res \in Outcomes :
       LET r == req[t]
           a == Append(AttemptsSoFar(task[t]), [rung |-> "note", res |-> res,
                                     position |-> Position(prov, NullRefs, r)])
       IN CASE res = "ok" ->
                 /\ notes' = [notes EXCEPT ![r] = @ \cup
                      {Posted(r, NoteEndpoint(prov),
                              SimpleNoteBody(CommentPath, CommentLine, CommentText), t)}]
                 /\ nextId' = [nextId EXCEPT ![r] = @ + 1]
                 /\ task' = [task EXCEPT ![t] =
                      LoopStep([@ EXCEPT !.att = a, !.sub = "true", !.posted = TRUE,
                                         !.accepted = @ + 1])]
            [] res # "ok" /\ NoteFailure(prov, res) = "false" ->
                 /\ UNCHANGED <<notes, nextId>>
                 /\ task' = [task EXCEPT ![t] =
                      LoopStep([@ EXCEPT !.att = a, !.sub = "false", !.posted = TRUE,
                                         !.clean = FALSE, !.failedSubs = @ + 1])]
            [] OTHER ->
                 /\ UNCHANGED <<notes, nextId>>
                 /\ task' = [task EXCEPT ![t] =
                      OnThrow([@ EXCEPT !.att = a, !.sub = "threw", !.posted = TRUE,
                                        !.clean = FALSE, !.failedSubs = @ + 1],
                              Msg("Failed to submit comment: ", res))]
  /\ UNCHANGED <<cfgVars, diffReferences, store, filterVars>>

\* submitReviewSummary: one POST
SubmitSummary(t) ==
  /\ task[t].pc = "summary"
  /\ \E res \in Outcomes :
       LET r == req[t]
       IN CASE res = "ok" ->
                 /\ notes' = [notes EXCEPT ![r] = @ \cup
                      {Posted(r, SummaryEndpoint(prov),
                              SummaryBody(prov, task[t].summary), t)}]
                 /\ nextId' = [nextId EXCEPT ![r] = @ + 1]
                 /\ task' = [task EXCEPT ![t] =
                      Complete([@ EXCEPT !.posted = TRUE, !.summaryPosts = @ + 1])]
            [] res # "ok" /\ NoteFailure(prov, res) = "false" ->
                 /\ UNCHANGED <<notes, nextId>>
                 /\ task' = [task EXCEPT ![t] =
                      Complete([@ EXCEPT !.posted = TRUE, !.clean = FALSE])]
            [] OTHER ->
                 /\ UNCHANGED <<notes, nextId>>
                 /\ task' = [task EXCEPT ![t] =
                      OnThrow([@ EXCEPT !.posted = TRUE, !.clean = FALSE],
                              Msg("Failed to submit review summary: ", res))]
  /\ UNCHANGED <<cfgVars, diffReferences, store, filterVars>>

\* ------------------------------------------------------------ specification
Next ==
  \E t \in Tasks :
    \/ Start(t)
    \/ StoreCreate(t)
    \/ StoreInProgress(t)
    \/ ClearFetch(t)
    \/ ClearDelete(t)
    \/ ClearFetch2(t)
    \/ FetchDiff(t)
    \/ FetchDiff2(t)
    \/ Analyze(t)
    \/ FetchPRDetails(t)
    \/ SubmitPos(t)
    \/ SubmitNote(t)
    \/ SubmitSummary(t)
    \/ StoreSave(t)
    \/ StoreSave2(t)
    \/ StoreFail(t)
    \/ Return(t)

Spec == Init /\ [][Next]_vars

\* every call that is awaited settles, and the continuation then runs: no
\* review waits forever at a step it can take
SpecFair == Init /\ [][Next]_vars /\ WF_vars(Next)

NextConc ==
  \E t \in Tasks :
    \/ Start(t)
    \/ ClearFetch(t)
    \/ ClearDelete(t)
    \/ ClearFetch2(t)
    \/ FetchDiff(t)
    \/ FetchDiff2(t)
    \/ Analyze(t)
    \/ FetchPRDetails(t)
    \/ SubmitPos(t)
    \/ SubmitNote(t)
    \/ SubmitSummary(t)
    \/ Return(t)

SpecConc == InitConc /\ [][NextConc]_vars

\* ---------------------------------------------------- filterCommentsForDiff
Paths == {"a.js", "b.js"}
DiffTypes == {"added", "deleted", "unchanged"}

\* sequences over S of length at most n
SeqsUpTo(S, n) == UNION {[1..k -> S] : k \in 0..n}

\* a FileDiff as far as the filter reads it; newLineNumber 0 stands for null
FileDiffs == [newLineNumber : 0..MaxLine, type : DiffTypes]
CodeFiles == [path : Paths, changes : SeqsUpTo(FileDiffs, MaxChanges)]
AIComments == [filePath : Paths, lineNumber : 1..MaxLine]

\* the `${path}:${line}` keys the filter collects: for every file, first the
\* line of every comment of the response that names the file, then the new
\* line number of every ADDED change that has one
ModifiedLines(response, files) ==
  UNION {
    {<<files[f].path, response.comments[c].lineNumber>> :
        c \in {x \in 1..Len(response.comments) :
                 response.comments[x].filePath = files[f].path}}
    \cup
    {<<files[f].path, files[f].changes[d].newLineNumber>> :
        d \in {x \in 1..Len(files[f].changes) :
                 /\ files[f].changes[x].type = "added"
                 /\ files[f].changes[x].newLineNumber # 0}}
    : f \in 1..Len(files)}

RECURSIVE FilterSeq(_, _)
\* Array.prototype.filter with the test `modifiedLines.has(key)`
FilterSeq(comments, modifiedLines) ==
  IF comments = <<>> THEN <<>>
  ELSE LET c == Head(comments)
           rest == FilterSeq(Tail(comments), modifiedLines)
       IN IF <<c.filePath, c.lineNumber>> \in modifiedLines THEN <<c>> \o rest ELSE rest

filterCommentsForDiff(response, files) ==
  [done |-> TRUE,
   comments |-> FilterSeq(response.comments, ModifiedLines(response, files)),
   summary |-> response.summary]

\* the files of a request and a parsed model response
InitFilter ==
  /\ sched = "none"
  /\ orch = "UseCase" /\ prov = "GitlabRepository" /\ postSummary = TRUE
  /\ req = [t \in Tasks |-> "r1"]
  /\ task = [t \in Tasks |-> InitTask]
  /\ notes = [r \in Requests |-> {HumanNote(prov)}]
  /\ nextId = [r \in Requests |-> 1]
  /\ diffReferences = NullRefs
  /\ store = [t \in Tasks |-> "none"]
  /\ fFiles \in SeqsUpTo(CodeFiles, MaxFiles)
  /\ \E cs \in SeqsUpTo(AIComments, MaxRespComments) :
       fResponse = [comments |-> cs, summary |-> <<"summary text">>]
  /\ fResult = NoResult
  /\ pRaw = <<>>
  /\ pOut = NoAnalysis
  /\ dParser = "none" /\ dIn = <<>> /\ dOut = NoChanges
  /\ wIn = NoRequest /\ wOut = NoReply
  /\ InitController /\ InitListing

\* analyzeCode: `return this.filterCommentsForDiff(response, files)`
AnalyzeCodeFilter ==
  /\ ~fResult.done
  /\ fResult' = filterCommentsForDiff(fResponse, fFiles)
  /\ UNCHANGED <<cfgVars, task, notes, nextId, diffReferences, store, fFiles, fResponse,
                 pRaw, pOut, dParser, dIn, dOut, wIn, wOut, ctlVars>>

NextFilter == AnalyzeCodeFilter

SpecFilter == InitFilter /\ [][NextFilter]_vars

\* ------------------------------------------------------ parseClaudeResponse
\* the longest comments array of a model response
MaxParseComments == 2

\* a character string is a sequence of one-character strings
LowerChars ==
  <<"a", "b", "c", "d", "e", "f", "g", "h", "i", "j", "k", "l", "m", "n", "o", "p",
    "q", "r", "s", "t", "u", "v", "w", "x", "y", "z", "e_acute">>
UpperChars ==
  <<"A", "B", "C", "D", "E", "F", "G", "H", "I", "J", "K", "L", "M", "N", "O", "P",
    "Q", "R", "S", "T", "U", "V", "W", "X", "Y", "Z", "E_ACUTE">>

\* String.prototype.toUpperCase: letters (accented ones too) go to their
\* capital, every other character stays
toUpperCase(str) ==
  [i \in 1..Len(str) |->
     IF \E k \in 1..Len(LowerChars) : LowerChars[k] = str[i]
     THEN UpperChars[CHOOSE k \in 1..Len(LowerChars) : LowerChars[k] = str[i]]
     ELSE str[i]]

\* enum CommentCategory: the values, in the order of the declaration
CategorySecurity == <<"s", "e", "c", "u", "r", "i", "t", "y">>
CategoryOther == <<"o", "t", "h", "e", "r">>
CommentCategory ==
  << CategorySecurity,
     <<"p", "e", "r", "f", "o", "r", "m", "a", "n", "c", "e">>,
     <<"s", "t", "y", "l", "e">>,
     <<"b", "e", "s", "t", "_", "p", "r", "a", "c", "t", "i", "c", "e">>,
     <<"b", "u", "g">>,
     CategoryOther >>

\* validateCategory: the first value of the enum whose upper-case form is the
\* upper-case form of the string, OTHER when there is none
validateCategory(category) ==
  LET normalizedCategory == toUpperCase(category)
      hits == {k \in 1..Len(CommentCategory) :
                 toUpperCase(CommentCategory[k]) = normalizedCategory}
  IN IF hits = {} THEN CategoryOther
     ELSE CommentCategory[CHOOSE k \in hits : \A j \in hits : k <= j]

\* category strings a model writes
RawSECURITY == <<"S", "E", "C", "U", "R", "I", "T", "Y">>
RawSecurite == <<"s", "e_acute", "c", "u", "r", "i", "t", "e_acute">>
RawCategories ==
  {RawSECURITY, RawSecurite, <<"B", "u", "g">>, <<"t", "y", "p", "o">>}

\* the raw text of the model is a sequence of pieces: prose, a code fence, a
\* brace, the opening `"comments": [`, one comment object, the closing `]`,
\* the `"summary": "..."` member, a stray comma, a literal backslash-n, a
\* control character, white space, the sentence 'This is not valid JSON'
Piece(k) == [k |-> k, filePath |-> "", lineNumber |-> 0, category |-> <<>>, inOrder |-> TRUE]
CommentPiece(path, line, cat, inOrder) ==
  [k |-> "comment", filePath |-> path, lineNumber |-> line, category |-> cat,
   inOrder |-> inOrder]

\* indexOf / lastIndexOf of a brace, 0 standing for -1
IndexOfOpen(text) ==
  IF \E i \in 1..Len(text) : text[i].k = "{"
  THEN CHOOSE i \in 1..Len(text) :
         text[i].k = "{" /\ \A j \in 1..(i - 1) : text[j].k # "{"
  ELSE 0
LastIndexOfClose(text) ==
  IF \E i \in 1..Len(text) : text[i].k = "}"
  THEN CHOOSE i \in 1..Len(text) :
         text[i].k = "}" /\ \A j \in (i + 1)..Len(text) : text[j].k # "}"
  ELSE 0

\* a parser that hands the whole answer to JSON.parse
SliceJsonWhole(response) == response

\* response.substring(response.indexOf('{')) (substring(-1) is the whole
\* text), then the cut after the last '}' when there is one
SliceJson(response) ==
  LET i == IndexOfOpen(response)
      jsonText == IF i = 0 THEN response ELSE SubSeq(response, i, Len(response))
      last == LastIndexOfClose(jsonText)
  IN IF last # 0 THEN SubSeq(jsonText, 1, last) ELSE jsonText

RECURSIVE fixJsonString(_)
\* fixJsonString: a literal \u000a or \n becomes a space, a control
\* character is removed
fixJsonString(jsonStr) ==
  IF jsonStr = <<>> THEN <<>>
  ELSE LET h == Head(jsonStr)
           rest == fixJsonString(Tail(jsonStr))
       IN CASE h.k = "\\n" -> <<Piece(" ")>> \o rest
            [] h.k = "ctrl" -> rest
            [] OTHER -> <<h>> \o rest

RECURSIVE SelectPieces(_, _)
SelectPieces(text, ks) ==
  IF text = <<>> THEN <<>>
  ELSE IF Head(text).k \in ks THEN <<Head(text)>> \o SelectPieces(Tail(text), ks)
       ELSE SelectPieces(Tail(text), ks)

\* JSON.parse: white space apart, the text is an object whose members are an
\* optional comments array of comment objects and an optional summary
JsonParse(text) ==
  LET t == SelectPieces(text, {"prose", "fence", "{", "}", "[", "comment", "]",
                               "summary", ",", "\\n", "ctrl", "not valid"})
      n == Len(t)
      inner == IF n >= 2 THEN SubSeq(t, 2, n - 1) ELSE <<>>
      m == Len(inner)
      hasSummary == m >= 1 /\ inner[m].k = "summary"
      arr == IF hasSummary THEN SubSeq(inner, 1, m - 1) ELSE inner
      a == Len(arr)
      arrOk == \/ a = 0
               \/ /\ a >= 2 /\ arr[1].k = "[" /\ arr[a].k = "]"
                  /\ \A i \in 2..(a - 1) : arr[i].k = "comment"
  IN IF n >= 2 /\ t[1].k = "{" /\ t[n].k = "}" /\ arrOk
     THEN [ok |-> TRUE, isArray |-> a >= 2,
           comments |-> IF a >= 2 THEN SubSeq(arr, 2, a - 1) ELSE <<>>,
           hasSummary |-> hasSummary]
     ELSE [ok |-> FALSE, isArray |-> FALSE, comments |-> <<>>, hasSummary |-> FALSE]

RECURSIVE RegexComments(_)
\* commentRegex.exec in a loop: every comment of the text whose five members
\* stand in the order filePath, lineNumber, content, category, severity with
\* a non-empty path
RegexComments(text) ==
  IF text = <<>> THEN <<>>
  ELSE LET h == Head(text)
       IN IF h.k = "comment" /\ h.inOrder /\ h.filePath # ""
          THEN <<h>> \o RegexComments(Tail(text))
          ELSE RegexComments(Tail(text))

\* manualJsonRepair: throws on the sentence 'This is not valid JSON', else
\* rebuilds an object from what the two regular expressions find
manualJsonRepair(jsonStr) ==
  IF \E i \in 1..Len(jsonStr) : jsonStr[i].k = "not valid"
  THEN [ok |-> FALSE, isArray |-> FALSE, comments |-> <<>>, hasSummary |-> FALSE]
  ELSE [ok |-> TRUE, isArray |-> TRUE, comments |-> RegexComments(jsonStr),
        hasSummary |-> \E i \in 1..Len(jsonStr) : jsonStr[i].k = "summary"]

SummaryOfModel == <<"summary text">>

\* parseClaudeResponse: slice, clean, parse, repair when the parse fails,
\* then the validation of every comment
parseClaudeResponse(response) ==
  LET cleanedJson == fixJsonString(SliceJson(response))
      strict == JsonParse(cleanedJson)
      parsed == IF strict.ok THEN strict ELSE manualJsonRepair(cleanedJson)
      via == IF strict.ok THEN "parsed" ELSE "repaired"
  IN IF ~parsed.ok
     THEN [state |-> "rejected", via |-> via,
           err |-> <<"Error parsing AI response: ",
                     "Error parsing AI response: Invalid JSON format">>,
           comments |-> <<>>, summary |-> <<>>]
     ELSE [state |-> "resolved", via |-> via, err |-> <<>>,
           comments |->
             IF parsed.isArray
             THEN [i \in 1..Len(parsed.comments) |->
                     [filePath |-> parsed.comments[i].filePath,
                      lineNumber |-> parsed.comments[i].lineNumber,
                      category |-> validateCategory(parsed.comments[i].category)]]
             ELSE <<>>,
           summary |->
             CASE parsed.hasSummary -> SummaryOfModel
               [] via = "parsed" -> <<"No summary provided.">>
               [] OTHER -> <<"Summary extraction failed">>]

\* analyzeCode once the model has answered: parse, then filter
analyzeCode(response, files) ==
  LET r == parseClaudeResponse(response)
  IN IF r.state = "rejected" THEN r
     ELSE [r EXCEPT !.comments = filterCommentsForDiff(r, files).comments]

\* the file of the request: line 1 of a.js is ADDED, line 2 is context
ParseFiles ==
  << [path |-> "a.js",
      changes |-> << [newLineNumber |-> 1, type |-> "added"],
                     [newLineNumber |-> 2, type |-> "unchanged"] >>] >>

\* where the comments of a response point: an ADDED line, a context line, a
\* file that is not part of the request
CommentTargets == {<<"a.js", 1>>, <<"a.js", 2>>, <<"zz.js", 1>>}
CommentShapes == [target : CommentTargets, inOrder : BOOLEAN]

\* the review object of a response, well formed or nearly so
ReviewObject(kind, cs, cat) ==
  LET objs == [i \in 1..Len(cs) |->
                 CommentPiece(cs[i].target[1], cs[i].target[2], cat, cs[i].inOrder)]
  IN <<Piece("{"), Piece("[")>> \o objs \o <<Piece("]")>>
     \o (IF kind = "escaped newline" THEN <<Piece("\\n")>> ELSE <<>>)
     \o <<Piece("summary")>>
     \o (IF kind = "trailing comma" THEN <<Piece(",")>> ELSE <<>>)
     \o <<Piece("}")>>

LeadingTexts ==
  {<<>>, <<Piece("prose")>>, <<Piece("prose"), Piece("{"), Piece("prose")>>,
   <<Piece("not valid")>>}
TrailingTexts ==
  {<<>>, <<Piece("prose")>>, <<Piece("prose"), Piece("}")>>}
ObjectKinds == {"none", "well formed", "escaped newline", "trailing comma"}

Fenced(fenced, body) ==
  IF fenced THEN <<Piece("fence")>> \o body \o <<Piece("fence")>> ELSE body

\* a raw answer of the model and the files of the request
InitParse ==
  /\ sched = "none"
  /\ orch = "UseCase" /\ prov = "GitlabRepository" /\ postSummary = TRUE
  /\ req = [t \in Tasks |-> "r1"]
  /\ task = [t \in Tasks |-> InitTask]
  /\ notes = [r \in Requests |-> {HumanNote(prov)}]
  /\ nextId = [r \in Requests |-> 1]
  /\ diffReferences = NullRefs
  /\ store = [t \in Tasks |-> "none"]
  /\ fFiles = ParseFiles
  /\ fResponse = [comments |-> <<>>, summary |-> <<>>]
  /\ fResult = NoResult
  /\ \E lead \in LeadingTexts, trail \in TrailingTexts, fenced \in BOOLEAN,
        kind \in ObjectKinds, cat \in RawCategories,
        cs \in SeqsUpTo(CommentShapes, MaxParseComments) :
       /\ kind = "none" => (cs = <<>> /\ cat = RawSECURITY)
       /\ pRaw = lead
                 \o Fenced(fenced, IF kind = "none" THEN <<>>
                                   ELSE ReviewObject(kind, cs, cat))
                 \o trail
  /\ pOut = NoAnalysis
  /\ dParser = "none" /\ dIn = <<>> /\ dOut = NoChanges
  /\ wIn = NoRequest /\ wOut = NoReply
  /\ InitController /\ InitListing

\* analyzeCode, from the answer of the model on
AnalyzeCodeParse ==
  /\ pOut.state = "none"
  /\ pOut' = analyzeCode(pRaw, fFiles)
  /\ UNCHANGED <<cfgVars, task, notes, nextId, diffReferences, store,
                 fFiles, fResponse, fResult, pRaw, dParser, dIn, dOut, wIn, wOut, ctlVars>>

NextParse == AnalyzeCodeParse

SpecParse == InitParse /\ [][NextParse]_vars

\* ------------------------------------------------------------- diff parsers
\* lines a diff text has after its first hunk header, at most
MaxDiffLines == 5

\* what a field of a FileDiff can hold at run time
Num(n) == [t |-> "number", n |-> n, s |-> <<>>]
Str(s) == [t |-> "string", n |-> 0, s |-> s]
Null == [t |-> "null", n |-> 0, s |-> <<>>]
Undefined == [t |-> "undefined", n |-> 0, s |-> <<>>]

\* enum DiffType
ADDED == Str(<<"added">>)
DELETED == Str(<<"deleted">>)
UNCHANGED_ == Str(<<"unchanged">>)

\* class FileDiff: the constructor assigns its parameters by position
FileDiff(oldLineNumber, newLineNumber, content, type) ==
  [oldLineNumber |-> oldLineNumber, newLineNumber |-> newLineNumber,
   content |-> content, type |-> type]

\* one line of diffContent.split('\n'): its characters and, for a line the
\* hunk-header expression matches, the two numbers it captures
HunkHeader(old, new) ==
  [chars |-> <<"@", "@", " ">>, match |-> TRUE, old |-> old, new |-> new]
TextLine(chars) == [chars |-> chars, match |-> FALSE, old |-> 0, new |-> 0]

\* String.startsWith
startsWith(line, prefix) ==
  Len(prefix) <= Len(line.chars) /\ SubSeq(line.chars, 1, Len(prefix)) = prefix

\* line.substring(1)
substring1(line) == Str(Tail(line.chars))

\* the parsers of the provider clients
ThreeArgumentParsers == {"parseDiffContent", "parsePatch", "parseDiff"}
FourArgumentParsers == {"parsePatchAdapter", "parseDetailedDiff"}
DiffParsers == ThreeArgumentParsers \cup FourArgumentParsers

\* `if (line.startsWith('+') && !line.startsWith('+++'))`; the adapter's
\* parsePatch tests only the first character
IsAddedBranch(p, line) ==
  /\ startsWith(line, <<"+">>)
  /\ p # "parsePatchAdapter" => ~startsWith(line, <<"+", "+", "+">>)

\* `else if (line.startsWith('-') && !line.startsWith('---'))`
IsDeletedBranch(p, line) ==
  /\ ~IsAddedBranch(p, line)
  /\ startsWith(line, <<"-">>)
  /\ p # "parsePatchAdapter" => ~startsWith(line, <<"-", "-", "-">>)

\* the condition of the last `else if`
IsUnchangedBranch(p, line) ==
  /\ ~IsAddedBranch(p, line)
  /\ ~IsDeletedBranch(p, line)
  /\ p \in {"parseDiffContent", "parseDiff", "parseDetailedDiff"} =>
       /\ ~startsWith(line, <<"@", "@">>)
       /\ ~startsWith(line, <<"-", "-", "-">>)
       /\ ~startsWith(line, <<"+", "+", "+">>)
  /\ p \in {"parseDiffContent", "parsePatch", "parsePatchAdapter"} =>
       ~startsWith(line, <<"\\">>)

\* an ADDED record that also carries the old cursor
NewAddedWithOld(p, old, new, line) ==
  IF p \in ThreeArgumentParsers
  THEN FileDiff(new, substring1(line), ADDED, Undefined)
  ELSE FileDiff(old, new, substring1(line), ADDED)

\* the `new FileDiff(...)` of the three branches
NewAdded(p, old, new, line) ==
  IF p \in ThreeArgumentParsers
  THEN FileDiff(new, substring1(line), ADDED, Undefined)
  ELSE FileDiff(Null, new, substring1(line), ADDED)

NewDeleted(p, old, new, line) ==
  IF p \in ThreeArgumentParsers
  THEN FileDiff(Null, substring1(line), DELETED, Undefined)
  ELSE FileDiff(old, Null, substring1(line), DELETED)

NewUnchanged(p, old, new, line) ==
  IF p \in ThreeArgumentParsers
  THEN FileDiff(new, Str(line.chars), UNCHANGED_, Undefined)
  ELSE FileDiff(old, new, Str(line.chars), UNCHANGED_)

\* `if (n !== null) n++`
Increment(n) == IF n.t = "number" THEN Num(n.n + 1) ELSE n

\* the loop over the lines; acc.from[k] is the index of the line that
\* acc.changes[k] was made from
RECURSIVE ScanLines(_, _, _, _, _, _)
ScanLines(p, lines, i, old, new, acc) ==
  IF i > Len(lines) THEN acc
  ELSE LET line == lines[i]
           push(c) == [done |-> TRUE, changes |-> Append(acc.changes, c),
                       from |-> Append(acc.from, i)]
       IN  IF startsWith(line, <<"@", "@">>)
           THEN IF line.match
                THEN ScanLines(p, lines, i + 1, Num(line.old), Num(line.new), acc)
                ELSE ScanLines(p, lines, i + 1, old, new, acc)
           ELSE IF IsAddedBranch(p, line)
           THEN ScanLines(p, lines, i + 1, old, Increment(new),
                          push(NewAdded(p, old, new, line)))
           ELSE IF IsDeletedBranch(p, line)
           THEN ScanLines(p, lines, i + 1, Increment(old), new,
                          push(NewDeleted(p, old, new, line)))
           ELSE IF IsUnchangedBranch(p, line)
           THEN ScanLines(p, lines, i + 1, Increment(old), Increment(new),
                          push(NewUnchanged(p, old, new, line)))
           ELSE ScanLines(p, lines, i + 1, old, new, acc)

\* `if (!diffContent) return []`, else the loop with both cursors null
ParseLines(p, lines) ==
  ScanLines(p, lines, 1, Null, Null, [done |-> TRUE, changes |-> <<>>, from |-> <<>>])

\* VersionControlAdapter.parseDiffContent
parseDiffContent(diffContent) == ParseLines("parseDiffContent", diffContent)
\* GithubRepository.parsePatch
parsePatch(patch) == ParseLines("parsePatch", patch)
\* GitlabRepository.parseDiff
parseDiff(diffContent) == ParseLines("parseDiff", diffContent)
\* the parsePatch of the GithubRepository under infrastructure/adapters
parsePatchAdapter(patch) == ParseLines("parsePatchAdapter", patch)
\* the parseDetailedDiff of the GitlabRepository under infrastructure/adapters
parseDetailedDiff(diffContent) == ParseLines("parseDetailedDiff", diffContent)

ParseWith(p, text) ==
  CASE p = "parseDiffContent" -> parseDiffContent(text)
    [] p = "parsePatch" -> parsePatch(text)
    [] p = "parseDiff" -> parseDiff(text)
    [] p = "parsePatchAdapter" -> parsePatchAdapter(text)
    [] p = "parseDetailedDiff" -> parseDetailedDiff(text)

\* the lines a hunk can hold: added, deleted and context lines, an added line
\* whose text begins with "++", the no-newline marker, a further hunk header
\* and an "@@" line the header expression does not match
HunkLines ==
  {TextLine(<<"+", "x">>), TextLine(<<"-", "x">>), TextLine(<<" ", "x">>),
   TextLine(<<"+", "+", "+", "i">>), TextLine(<<"\\">>),
   HunkHeader(20, 21), TextLine(<<"@", "@", "@">>)}

\* lines a diff text has before its first hunk header, at most
MaxLeadingLines == 1

\* the lines that can stand before the first hunk header
LeadingLines ==
  {TextLine(<<"+", "x">>), TextLine(<<"-", "x">>),
   TextLine(<<"+", "+", "+", "i">>), TextLine(<<"-", "-", "-", "i">>)}

DiffTexts ==
  {<<>>} \cup {<<HunkHeader(10, 10)>> \o body : body \in SeqsUpTo(HunkLines, MaxDiffLines)}
         \cup {lead \o <<HunkHeader(10, 10)>> \o body :
                 lead \in SeqsUpTo(LeadingLines, MaxLeadingLines) \ {<<>>},
                 body \in SeqsUpTo(HunkLines, 1)}

InitDiff ==
  /\ sched = "none"
  /\ orch = "UseCase" /\ prov = "GitlabRepository" /\ postSummary = TRUE
  /\ req = [t \in Tasks |-> "r1"]
  /\ task = [t \in Tasks |-> InitTask]
  /\ notes = [r \in Requests |-> {HumanNote(prov)}]
  /\ nextId = [r \in Requests |-> 1]
  /\ diffReferences = NullRefs
  /\ store = [t \in Tasks |-> "none"]
  /\ fFiles = <<>>
  /\ fResponse = [comments |-> <<>>, summary |-> <<>>]
  /\ fResult = NoResult
  /\ pRaw = <<>>
  /\ pOut = NoAnalysis
  /\ dParser \in DiffParsers
  /\ dIn \in DiffTexts
  /\ dOut = NoChanges
  /\ wIn = NoRequest /\ wOut = NoReply
  /\ InitController /\ InitListing

\* one call of the parser on the diff text of a file
ParseDiffText ==
  /\ ~dOut.done
  /\ dOut' = ParseWith(dParser, dIn)
  /\ UNCHANGED <<cfgVars, task, notes, nextId, diffReferences, store,
                 fFiles, fResponse, fResult, pRaw, pOut, dParser, dIn, wIn, wOut, ctlVars>>

NextDiff == ParseDiffText

SpecDiff == InitDiff /\ [][NextDiff]_vars

\* ------------------------------------------------------- WebhookController
\* a value a condition takes as true
Truthy(v) == v \notin {"undefined", ""}

\* a token check that lets a request without the header through
TokenMismatchWhenSent(configuredToken, token) ==
  Truthy(configuredToken) /\ Truthy(token) /\ token # configuredToken

\* `if (configuredToken && token !== configuredToken)`
TokenMismatch(configuredToken, token) ==
  Truthy(configuredToken) /\ token # configuredToken

\* project.id.toString()
toString(id) == CASE id = 7 -> "7" [] id = 42 -> "42"

\* throw new HttpException('Unauthorized', HttpStatus.UNAUTHORIZED)
Unauthorized ==
  [state |-> "rejected", status |-> 401, message |-> "Unauthorized", started |-> <<>>]

\* a property of undefined is read: the handler's promise rejects
TypeError ==
  [state |-> "rejected", status |-> 500, message |-> "TypeError", started |-> <<>>]

Reply(message, started) ==
  [state |-> "answered", status |-> 201, message |-> message, started |-> started]

\* this.analyzeMergeRequestUseCase.execute(projectId, mergeRequestId, 'system')
Execute(projectId, mergeRequestId) ==
  [projectId |-> projectId, mergeRequestId |-> mergeRequestId, userId |-> "system"]

handleGitlabWebhook(r) ==
  IF TokenMismatch(r.configuredToken, r.token) THEN Unauthorized
  ELSE IF r.kind = "merge_request"
  THEN IF ~r.hasAttributes THEN TypeError
       ELSE IF r.action \in {"open", "update"}
       THEN Reply("Review process started", <<Execute(toString(r.project), r.number)>>)
       ELSE Reply("Event ignored", <<>>)
  ELSE Reply("Event ignored", <<>>)

handleGithubWebhook(r) ==
  IF r.action \in {"opened", "synchronize"}
  THEN IF ~r.hasAttributes THEN TypeError
       ELSE Reply("Review process started for GitHub PR",
                  <<Execute(r.project, r.number)>>)
  ELSE Reply("Event ignored", <<>>)

\* what GitLab sends: merge-request events (object_attributes with an action),
\* note events (object_attributes without an action), push events (none)
GitlabEvents ==
  {[kind |-> "merge_request", hasAttributes |-> TRUE, action |-> a] :
     a \in {"open", "update", "close", "merge"}}
  \cup {[kind |-> "note", hasAttributes |-> TRUE, action |-> "undefined"],
        [kind |-> "push", hasAttributes |-> FALSE, action |-> "undefined"]}

\* what GitHub sends: pull_request events, issues events (an action, but no
\* pull_request member), push events (no action)
GithubEvents ==
  {[kind |-> "pull_request", hasAttributes |-> TRUE, action |-> a] :
     a \in {"opened", "synchronize", "closed"}}
  \cup {[kind |-> "issues", hasAttributes |-> FALSE, action |-> a] :
          a \in {"opened", "closed"}}
  \cup {[kind |-> "push", hasAttributes |-> FALSE, action |-> "undefined"]}

WebhookRequest(provider, configuredToken, token, e, project, number) ==
  [provider |-> provider, configuredToken |-> configuredToken, token |-> token,
   kind |-> e.kind, hasAttributes |-> e.hasAttributes, action |-> e.action,
   project |-> project, number |-> number]

WebhookRequests ==
  {WebhookRequest("gitlab", c, t, e, p, n) :
     c \in {"undefined", "", "secret"}, t \in {"undefined", "secret", "wrong"},
     e \in GitlabEvents, p \in {7, 42}, n \in {1, 2}}
  \cup {WebhookRequest("github", c, "undefined", e, p, n) :
          c \in {"undefined", "secret"},
          e \in GithubEvents, p \in {"o/r", "o/s"}, n \in {1, 2}}

InitWebhook ==
  /\ sched = "none"
  /\ orch = "UseCase" /\ prov = "GitlabRepository" /\ postSummary = TRUE
  /\ req = [t \in Tasks |-> "r1"]
  /\ task = [t \in Tasks |-> InitTask]
  /\ notes = [r \in Requests |-> {HumanNote(prov)}]
  /\ nextId = [r \in Requests |-> 1]
  /\ diffReferences = NullRefs
  /\ store = [t \in Tasks |-> "none"]
  /\ fFiles = <<>>
  /\ fResponse = [comments |-> <<>>, summary |-> <<>>]
  /\ fResult = NoResult
  /\ pRaw = <<>>
  /\ pOut = NoAnalysis
  /\ dParser = "none" /\ dIn = <<>> /\ dOut = NoChanges
  /\ wIn \in WebhookRequests
  /\ wOut = NoReply
  /\ InitController /\ InitListing

\* POST /webhook/gitlab
HandleGitlabWebhook ==
  /\ wIn.provider = "gitlab" /\ wOut.state = "none"
  /\ wOut' = handleGitlabWebhook(wIn)
  /\ UNCHANGED <<cfgVars, task, notes, nextId, diffReferences, store,
                 fFiles, fResponse, fResult, pRaw, pOut, dParser, dIn, dOut, wIn, ctlVars>>

\* POST /webhook/github
HandleGithubWebhook ==
  /\ wIn.provider = "github" /\ wOut.state = "none"
  /\ wOut' = handleGithubWebhook(wIn)
  /\ UNCHANGED <<cfgVars, task, notes, nextId, diffReferences, store,
                 fFiles, fResponse, fResult, pRaw, pOut, dParser, dIn, dOut, wIn, ctlVars>>

NextWebhook == HandleGitlabWebhook \/ HandleGithubWebhook

SpecWebhook == InitWebhook /\ [][NextWebhook]_vars

\* -------------------------------------------- ReviewController.createReview
VcsTypes == {"gitlab", "github"}
AIProviderTypes == {"undefined", "claude", "openai"}
AIModelTypes == {"undefined", "claude_opus", "claude_sonnet", "claude_haiku", "gpt4", "gpt35"}

\* the request bodies: GitLab's numeric project id or GitHub's owner/repo
CreateReviewDtos ==
  [vcsType : VcsTypes, projectId : {"12345", "owner/repo"}, mergeRequestId : {42},
   aiProvider : AIProviderTypes, aiModel : AIModelTypes]

\* the switch statements over createReviewDto.aiModel
ClaudeModelOf(aiModel, current) ==
  CASE aiModel = "claude_opus" -> "OPUS"
    [] aiModel = "claude_sonnet" -> "SONNET"
    [] aiModel = "claude_haiku" -> "HAIKU"
    [] OTHER -> current

OpenAIModelOf(aiModel, current) ==
  CASE aiModel = "gpt4" -> "GPT4"
    [] aiModel = "gpt35" -> "GPT35"
    [] OTHER -> current

\* "Configure AI provider and model if specified"
ConfigureAi(f, dto) ==
  CASE dto.aiProvider = "claude" ->
         [f EXCEPT !.currentProvider = "claude",
                   !.claudeModel = ClaudeModelOf(dto.aiModel, @)]
    [] dto.aiProvider = "openai" ->
         [f EXCEPT !.currentProvider = "openai",
                   !.openaiModel = OpenAIModelOf(dto.aiModel, @)]
    [] OTHER -> f

\* Object.assign(target, source): every own field of source is written over
\* target's; the methods of target, which live on its prototype, stay
ObjectAssign(target, source) ==
  [k \in DOMAIN target |-> IF k \in DOMAIN source THEN source[k] ELSE target[k]]

\* the class whose methods an instance runs
ClassOf(instance) ==
  IF instance = "gitlab" THEN "GitlabRepository" ELSE "GithubRepository"

\* the instance the module provides under VERSION_CONTROL_REPOSITORY_TOKEN,
\* which is the one AnalyzeMergeRequestUseCase was built with
ProvidedInstance == "gitlab"

\* createReview: select the repository of the request's vcsType, configure
\* the model, look the provided instance up and assign the selected
\* repository onto it, then run the use case; when the lookup throws (a
\* module without that provider) the calls go to the selected repository
CreateReview ==
  /\ \E dto \in CreateReviewDtos, lookup \in {"found", "throws"} :
       LET repository == IF dto.vcsType = "github" THEN "github" ELSE "gitlab"
           assigned == [repositories EXCEPT ![ProvidedInstance] =
                          ObjectAssign(@, repositories[repository])]
           after == IF lookup = "found" THEN assigned ELSE repositories
           used == IF lookup = "found" THEN ProvidedInstance ELSE repository
       IN /\ repositories' = after
          /\ aiFactory' = ConfigureAi(aiFactory, dto)
          /\ served' = [vcsType |-> dto.vcsType,
                        projectId |-> dto.projectId,
                        mergeRequestId |-> dto.mergeRequestId,
                        calledBy |-> ClassOf(used),
                        apiBaseUrl |-> after[used].apiBaseUrl,
                        apiToken |-> after[used].apiToken]
  /\ UNCHANGED <<cfgVars, task, notes, nextId, diffReferences, store,
                 fFiles, fResponse, fResult, pRaw, pOut, dParser, dIn, dOut,
                 wIn, wOut, gImpl, gIn, gOut>>

InitCreate ==
  /\ sched = "seq"
  /\ req = [t \in Tasks |-> "r1"]
  /\ InitCommon
  /\ orch = "UseCase" /\ prov = "GitlabRepository"

NextCreate == CreateReview

SpecCreate == InitCreate /\ [][NextCreate]_vars

\* ---------------------------------------- GithubRepository.getMergeRequestFiles
MaxListing == 3

\* the two GithubRepository classes of the repository
GithubRepositories == {"persistence/github.repository.ts", "unnamed/part_006"}

FileNames == <<"a.ts", "b.png", "c.ts", "d.ts", "e.ts">>
FileStatuses == {"added", "modified", "removed"}

\* the bodies of GET pulls/:number/files: status and binary of every entry
Listings ==
  {[k \in 1..Len(l) |-> [filename |-> FileNames[k], status |-> l[k].status,
                         binary |-> l[k].binary]] :
     l \in SeqsUpTo([status : FileStatuses, binary : BOOLEAN], MaxListing)}

\* `if (file.status === 'removed' || file.binary) continue`
Skipped(file) == file.status = "removed" \/ file.binary

\* new CodeFile(file.filename, fileContent, ...)
NewCodeFile(file, fileContent) == [path |-> file.filename, content |-> fileContent]

Returned(files) == [state |-> "returned", files |-> files, message |-> <<>>]
ReturnedUndefined == [state |-> "undefined", files |-> <<>>, message |-> <<>>]
Threw(message) == [state |-> "threw", files |-> <<>>, message |-> message]

\* the loop of persistence/github.repository.ts from entry k on: a failed
\* content request throws, `return files` stands inside the loop, and
\* nothing is returned once the loop is over
RECURSIVE FilesLoop(_, _, _, _)
FilesLoop(filesData, content, k, files) ==
  IF k > Len(filesData) THEN ReturnedUndefined
  ELSE IF Skipped(filesData[k]) THEN FilesLoop(filesData, content, k + 1, files)
  ELSE IF content[k] # "ok"
       THEN Threw(<<"Failed to get PR files: ", "Failed to get file content: ">>
                    \o Msg("Failed to fetch file content: ", content[k]))
       ELSE Returned(Append(files, NewCodeFile(filesData[k], "text")))

\* the loop of unnamed/part_006: a failed content request leaves the content
\* empty, `return files` follows the loop
RECURSIVE FilesLoop006(_, _, _, _)
FilesLoop006(filesData, content, k, files) ==
  IF k > Len(filesData) THEN Returned(files)
  ELSE IF Skipped(filesData[k]) THEN FilesLoop006(filesData, content, k + 1, files)
  ELSE FilesLoop006(filesData, content, k + 1,
         Append(files, NewCodeFile(filesData[k],
                                   IF content[k] = "ok" THEN "text" ELSE "")))

\* getMergeRequestFiles: the pull request, the listing, then the loop
getMergeRequestFiles(impl, pr, listing, filesData, content) ==
  IF pr # "ok"
  THEN Threw(<<"Failed to get PR files: ">> \o Msg("Failed to fetch PR details: ", pr))
  ELSE IF listing # "ok"
  THEN Threw(<<"Failed to get PR files: ">> \o Msg("Failed to fetch PR files: ", listing))
  ELSE IF impl = "unnamed/part_006"
  THEN FilesLoop006(filesData, content, 1, <<>>)
  ELSE FilesLoop(filesData, content, 1, <<>>)

InitFiles ==
  /\ sched = "none"
  /\ orch = "UseCase" /\ prov = "GithubRepository" /\ postSummary = TRUE
  /\ req = [t \in Tasks |-> "r1"]
  /\ task = [t \in Tasks |-> InitTask]
  /\ notes = [r \in Requests |-> {HumanNote(prov)}]
  /\ nextId = [r \in Requests |-> 1]
  /\ diffReferences = NullRefs
  /\ store = [t \in Tasks |-> "none"]
  /\ fFiles = <<>>
  /\ fResponse = [comments |-> <<>>, summary |-> <<>>]
  /\ fResult = NoResult
  /\ pRaw = <<>>
  /\ pOut = NoAnalysis
  /\ dParser = "none" /\ dIn = <<>> /\ dOut = NoChanges
  /\ wIn = NoRequest /\ wOut = NoReply
  /\ InitController
  /\ gImpl \in GithubRepositories
  /\ gIn \in Listings
  /\ gOut = NoFiles

\* one call of getMergeRequestFiles; every request it makes succeeds, is
\* answered with an error status or fails
GetMergeRequestFiles ==
  /\ gOut.state = "none"
  /\ \E pr \in Outcomes, listing \in Outcomes,
        content \in [1..Len(gIn) -> Outcomes] :
       gOut' = getMergeRequestFiles(gImpl, pr, listing, gIn, content)
  /\ UNCHANGED <<cfgVars, task, notes, nextId, diffReferences, store,
                 fFiles, fResponse, fResult, pRaw, pOut, dParser, dIn, dOut,
                 wIn, wOut, repositories, aiFactory, served, gImpl, gIn>>

NextFiles == GetMergeRequestFiles

SpecFiles == InitFiles /\ [][NextFiles]_vars

\* ------------------------------------------------------------------ claims
MachineAuthored(r) == {n \in notes[r] : n.by # 0}
PositionalRungs == {"pos1", "pos2"}
PositionalAttempts(s) == {k \in 1..Len(s.att) : s.att[k].rung \in PositionalRungs}
ClearPcs == {"clear", "clear_delete", "clear2"}
IsPrefix(a, b) == Len(a) <= Len(b) /\ SubSeq(b, 1, Len(a)) = a

\* C1: after two sequential reviews of the same request that both completed
\* (no call failing other than positional requests being rejected), the
\* machine-authored comments on the request are as many as the second run
\* produced: its comments plus its summary, not the sum of both runs.
C1_SecondRunReplacesFirst ==
  ( /\ sched = "seq"
    /\ task[1].pc = "done" /\ task[1].clean
    /\ task[2].pc = "returned" /\ task[2].out.status = "COMPLETED" /\ task[2].clean )
  => Cardinality(MachineAuthored(req[2])) = task[2].n + task[2].summaryPosts

\* C2: when submitComment has given up on a comment (returned false or threw)
\* after positional requests none of which was accepted, the plain-note
\* fallback request was issued.
C2_FallbackBeforeGivingUp ==
  \A t \in Tasks :
    ( /\ task[t].sub \in {"false", "threw"}
      /\ PositionalAttempts(task[t]) # {}
      /\ \A k \in PositionalAttempts(task[t]) : task[t].att[k].res # "ok" )
    => \E k \in 1..Len(task[t].att) : task[t].att[k].rung = "note"

\* C3: with reviews of two different requests overlapping on one provider
\* client, no positional request of a review carries a revision identifier
\* that was fetched for the other request.
C3_AnchorsOfOwnRequest ==
  \A t \in Tasks : \A u \in Tasks \ {t} :
    req[u] # req[t] =>
      \A k \in PositionalAttempts(task[t]) :
        LET pos == task[t].att[k].position
            other == DiffRefsOf(req[u])
        IN /\ pos.base_sha # other.base_sha
           /\ pos.start_sha # other.start_sha
           /\ pos.head_sha # other.head_sha

\* C4: (CodeReviewService, store-less use case) when a submitComment call
\* ended without the provider accepting any request, every comment of the
\* review is still attempted and the review returns COMPLETED.
C4_FailedSubmissionDoesNotAbort ==
  \A t \in Tasks :
    ( /\ orch # "StoreUseCase"
      /\ task[t].pc = "returned"
      /\ task[t].failedSubs > 0 )
    => /\ task[t].out.status = "COMPLETED"
       /\ task[t].i = task[t].n

\* C5: the review operation never raises: whenever it ends, it has returned an
\* outcome whose status is COMPLETED or FAILED.
C5_NeverRaises ==
  \A t \in Tasks :
    task[t].pc = "returned" =>
      /\ task[t].out.state = "returned"
      /\ task[t].out.status \in {"COMPLETED", "FAILED"}

\* C6: the statuses a use case produces for one review are PENDING, then
\* IN_PROGRESS, then exactly one of COMPLETED and FAILED, and nothing after.
C6_StatusSequence ==
  \A t \in Tasks :
    orch \in {"UseCase", "StoreUseCase"} =>
      /\ \/ IsPrefix(task[t].statuses, <<"PENDING", "IN_PROGRESS", "COMPLETED">>)
         \/ IsPrefix(task[t].statuses, <<"PENDING", "IN_PROGRESS", "FAILED">>)
      /\ (task[t].pc = "returned" /\ task[t].out.state = "returned")
           => Len(task[t].statuses) = 3

DiffOrModelFailures ==
  {"Failed to get MR files: ", "Failed to get PR files: ", "Failed to call Claude API: "}

\* C7: when the diff fetch or the model call failed, the review operation
\* returns an outcome with status FAILED whose summary contains the message
\* of the error.
C7_FetchOrModelFailureGivesFailed ==
  \A t \in Tasks :
    ( /\ task[t].pc = "returned"
      /\ task[t].err # <<>>
      /\ task[t].err[1] \in DiffOrModelFailures )
    => /\ task[t].out.state = "returned"
       /\ task[t].out.status = "FAILED"
       /\ Includes(task[t].out.summary, task[t].err)

\* C8: while a review is still listing or deleting earlier comments, it has
\* issued no post (comment, note or summary): every delete call of a run
\* comes before its first post.
C8_ClearBeforePost ==
  \A t \in Tasks : task[t].pc \in ClearPcs => ~task[t].posted

\* a run that deleted an earlier comment and then posted
C8_Witness ==
  \E t \in Tasks : task[t].deleted /\ task[t].posted /\ task[t].pc = "returned"

IsAddedLine(files, c) ==
  \E f \in 1..Len(files) :
    /\ files[f].path = c.filePath
    /\ \E d \in 1..Len(files[f].changes) :
         /\ files[f].changes[d].type = "added"
         /\ files[f].changes[d].newLineNumber = c.lineNumber

\* C9: every comment analyzeCode returns is on an ADDED line of its file's
\* diff; a comment whose (filePath, lineNumber) matches none is left out.
C9_OnlyAddedLinesKept ==
  fResult.done =>
    \A k \in 1..Len(fResult.comments) : IsAddedLine(fFiles, fResult.comments[k])

\* C10: a review that returns COMPLETED lists as its comments only comments
\* of which the provider accepted a request: a comment every request of
\* which failed is reported, not passed off as posted.
C10_FailedSubmissionReported ==
  \A t \in Tasks :
    ( /\ task[t].pc = "returned"
      /\ task[t].out.state = "returned"
      /\ task[t].out.status = "COMPLETED" )
    => task[t].out.comments = task[t].accepted

\* the text holds nothing of a review object: no comments array, no comment,
\* no summary member
NoReviewObject(raw) == SelectPieces(raw, {"[", "comment", "]", "summary"}) = <<>>

\* C11: a raw model output that is prose and holds no review object (with or
\* without braces or fences) makes analyzeCode reject with an
\* 'Error parsing AI response' error.
C11_UnparseableRejected ==
  ( /\ pOut.state # "none"
    /\ NoReviewObject(pRaw)
    /\ SelectPieces(pRaw, {"prose"}) # <<>> ) =>
    /\ pOut.state = "rejected"
    /\ pOut.err[1] = "Error parsing AI response: "

FenceAt(raw) == {i \in 1..Len(raw) : raw[i].k = "fence"}
\* the text between the two code fences
Embedded(raw) ==
  LET a == CHOOSE i \in FenceAt(raw) : \A j \in FenceAt(raw) : i <= j
      b == CHOOSE i \in FenceAt(raw) : \A j \in FenceAt(raw) : j <= i
  IN SubSeq(raw, a + 1, b - 1)
\* the text before the first and after the last code fence
Surrounding(raw) ==
  LET a == CHOOSE i \in FenceAt(raw) : \A j \in FenceAt(raw) : i <= j
      b == CHOOSE i \in FenceAt(raw) : \A j \in FenceAt(raw) : j <= i
  IN SubSeq(raw, 1, a - 1) \o SubSeq(raw, b + 1, Len(raw))
\* a JSON review object inside code fences, with prose before and after
FencedWithProse(raw) ==
  /\ Cardinality(FenceAt(raw)) = 2
  /\ JsonParse(Embedded(raw)).ok
  /\ raw[1].k # "fence" /\ raw[Len(raw)].k # "fence"

RawCategoryOf(raw) == SelectPieces(raw, {"comment"})[1].category

\* C13: a comment whose category string is "sécurité" or "SECURITY" comes out
\* with the category SECURITY; a string that names no category comes out OTHER.
C13_CategoryNormalized ==
  (pOut.state = "resolved" /\ pOut.comments # <<>>) =>
    \A i \in 1..Len(pOut.comments) :
      /\ RawCategoryOf(pRaw) \in {RawSECURITY, RawSecurite}
           => pOut.comments[i].category = CategorySecurity
      /\ RawCategoryOf(pRaw) = <<"t", "y", "p", "o">>
           => pOut.comments[i].category = CategoryOther

\* a valid diff text of one file: it starts with a hunk header and the header
\* expression matches every "@@" line
ValidDiff(lines) ==
  /\ lines # <<>>
  /\ \A i \in 1..Len(lines) : startsWith(lines[i], <<"@", "@">>) => lines[i].match

\* the hunk line i is in: the number of hunk headers up to it
HunkOf(lines, i) == Cardinality({j \in 1..i : lines[j].match})

\* an added line of a hunk
IsAddedLine14(line) == ~line.match /\ startsWith(line, <<"+">>)

CharCode(c) ==
  CASE c = " " -> 32 [] c = "+" -> 43 [] c = "-" -> 45 [] c = "@" -> 64
    [] c = "\\" -> 92 [] c = "i" -> 105 [] c = "x" -> 120

RECURSIVE StringLess(_, _)
StringLess(a, b) ==
  IF b = <<>> THEN FALSE
  ELSE IF a = <<>> THEN TRUE
  ELSE IF Head(a) = Head(b) THEN StringLess(Tail(a), Tail(b))
  ELSE CharCode(Head(a)) < CharCode(Head(b))

\* a < b, for two numbers or for two strings
Less(a, b) ==
  \/ a.t = "number" /\ b.t = "number" /\ a.n < b.n
  \/ a.t = "string" /\ b.t = "string" /\ StringLess(a.s, b.s)

\* C14: for every valid diff text, the entries a parser makes from the added
\* lines of one hunk carry, in order, strictly increasing newLineNumber values.
C14_AddedNumbersIncrease ==
  (dOut.done /\ ValidDiff(dIn)) =>
    \A i, j \in 1..Len(dOut.changes) :
      (/\ i < j
       /\ IsAddedLine14(dIn[dOut.from[i]])
       /\ IsAddedLine14(dIn[dOut.from[j]])
       /\ HunkOf(dIn, dOut.from[i]) = HunkOf(dIn, dOut.from[j]))
      => Less(dOut.changes[i].newLineNumber, dOut.changes[j].newLineNumber)

\* the hunk `@@ -10,3 +10,4 @@` with a context line, one deleted line, two
\* added lines and a closing context line
RoundTripDiff ==
  <<HunkHeader(10, 10), TextLine(<<" ", "x">>), TextLine(<<"-", "x">>),
    TextLine(<<"+", "x">>), TextLine(<<"+", "x">>), TextLine(<<" ", "x">>)>>

EntriesOfType(changes, type) == SelectSeq(changes, LAMBDA c : c.type = type)

\* C15: parsing the hunk `@@ -10,3 +10,4 @@` with one deleted and two added
\* lines gives exactly one DELETED entry whose oldLineNumber is 10 or 11 and
\* exactly two ADDED entries whose newLineNumber is 11 and 12.
C15_RoundTrip ==
  (dOut.done /\ dIn = RoundTripDiff) =>
    LET deleted == EntriesOfType(dOut.changes, DELETED)
        added == EntriesOfType(dOut.changes, ADDED)
    IN  /\ Len(deleted) = 1
        /\ deleted[1].oldLineNumber \in {Num(10), Num(11)}
        /\ Len(added) = 2
        /\ added[1].newLineNumber = Num(11)
        /\ added[2].newLineNumber = Num(12)

\* one step of the deletion loop: the head of the list has been attempted and
\* the run is at the next DELETE or at what clearPreviousComments does next
DeleteStep ==
  \A t \in Tasks :
    (task[t].pc = "clear_delete" /\ task'[t] # task[t]) =>
      /\ task'[t].todo = Tail(task[t].todo)
      /\ task'[t].pc \in {"clear_delete", "clear2", "diff"}
      /\ task'[t].err = <<>>

\* C16: a DELETE that fails (rejected or thrown) during clearPreviousComments
\* does not stop the run: whatever its result, the loop goes on to the next
\* identified comment, the run leaves the loop only when a DELETE has been
\* attempted for each of them, and it goes on to fetch the diff.
C16_FailedDeleteDoesNotStop ==
  /\ [](\A t \in Tasks : task[t].pc # "clear_delete" => task[t].todo = <<>>)
  /\ [][DeleteStep]_vars

\* a comment of the first review that the second review identified and failed
\* to delete is still on the request when the second review has posted its own
C16_Witness ==
  /\ prov = "GitlabRepository"
  /\ task[2].deleted /\ task[2].posted
  /\ \E n \in notes[req[2]] : n.by = 1 /\ IsAiBody(prov, n.ep, n.body)

\* the comments review t has on its request for the comments of the model
CommentsOfReview(t) ==
  {n \in notes[req[t]] :
     /\ n.by = t
     /\ n.body \in {PositionedBody(CommentText),
                    SimpleNoteBody(CommentPath, CommentLine, CommentText)}}

\* C17: a request of the ladder that the provider accepted is the last request
\* of its submitComment call, and a review never has more comments on the
\* request than the number of model comments it has submitted so far.
C17_AcceptedRungIsLast ==
  \A t \in Tasks :
    /\ \A k \in 1..Len(task[t].att) :
         task[t].att[k].res = "ok" =>
           \/ k = Len(task[t].att)
           \/ task[t].att[k].rung = "pr"
    /\ task[t].pc # "done" =>
         /\ task[t].accepted <= task[t].i
         /\ Cardinality(CommentsOfReview(t)) <= task[t].i

\* the first positional request was refused, the second one accepted, and
\* submitComment returned true without posting the plain note
C17_Witness ==
  \E t \in Tasks :
    /\ task[t].sub = "true"
    /\ Len(task[t].att) = 2
    /\ task[t].att[1].rung = "pos1" /\ task[t].att[1].res = "rejected"
    /\ task[t].att[2].rung = "pos2" /\ task[t].att[2].res = "ok"
    /\ Cardinality(CommentsOfReview(t)) = 1

\* the submitComment call that review t made last has returned or thrown
CallEnded(t) == task[t].sub \in {"true", "false", "threw"}

\* the anchor identifiers of that call were absent (GitLab: no diff references
\* on the instance) or could not be obtained (GitHub: the GET of the pull
\* request, which carries the head commit, failed)
AnchorsUnavailable(t) ==
  IF IsGitlab(prov)
  THEN diffReferences.baseSha = NullSha \/ diffReferences.headSha = NullSha
  ELSE \E k \in 1..Len(task[t].att) :
         task[t].att[k].rung = "pr" /\ task[t].att[k].res # "ok"

RungsOf(t, rungs) == SelectSeq(task[t].att, LAMBDA a : a.rung \in rungs)

\* C18: a submitComment call whose anchor identifiers are absent or cannot be
\* obtained issues no positional request and exactly one plain-note request.
C18_DegradesToOnePlainNote ==
  \A t \in Tasks :
    (CallEnded(t) /\ AnchorsUnavailable(t)) =>
      /\ RungsOf(t, PositionalRungs) = <<>>
      /\ Len(RungsOf(t, {"note"})) = 1

\* the positions of a review inside a submitComment call
SubmitPcs == {"pr", "pos1", "pos2", "note"}

\* the submitComment calls of review t that have returned or thrown
EndedCalls(t) == task[t].accepted + task[t].failedSubs

\* C19: the comments are submitted one at a time, in the order of the list:
\* while the call for comment i is in progress the calls for the i - 1
\* comments before it have all ended, and outside a call every call that was
\* started has ended.
C19_OneSubmissionAtATime ==
  \A t \in Tasks :
    task[t].pc # "done" =>
      /\ task[t].i <= task[t].n
      /\ EndedCalls(t) = IF task[t].pc \in SubmitPcs THEN task[t].i - 1 ELSE task[t].i

\* the call for the second comment is in progress, the first one has ended
C19_Witness ==
  \E t \in Tasks :
    /\ task[t].pc \in SubmitPcs
    /\ task[t].i = 2
    /\ EndedCalls(t) = 1

TerminalStatuses == {"COMPLETED", "FAILED"}

\* a review has started: its record is in the review store and not yet
\* terminal, or (flows without a store) the call is running
ReviewStarted(t) ==
  IF orch = "StoreUseCase"
  THEN store[t] \in {"PENDING", "IN_PROGRESS"}
  ELSE task[t].pc \notin {"idle", "done"}

\* the review has reached a terminal status: in the store, or in the outcome
\* handed to the caller
ReviewTerminal(t) ==
  \/ store[t] \in TerminalStatuses
  \/ task[t].out.state = "returned" /\ task[t].out.status \in TerminalStatuses

\* C20: when every awaited call settles, every started review eventually
\* reaches COMPLETED or FAILED; none stays PENDING or IN_PROGRESS for ever.
C20_EveryReviewEnds ==
  \A t \in Tasks : ReviewStarted(t) ~> ReviewTerminal(t)

\* C21: when GITLAB_WEBHOOK_TOKEN is configured and the x-gitlab-token of the
\* request differs from it (or is missing), handleGitlabWebhook rejects the
\* request as unauthorized and starts no review, whatever the payload.
C21_WrongTokenRejected ==
  (/\ wOut.state # "none"
   /\ wIn.provider = "gitlab"
   /\ Truthy(wIn.configuredToken)
   /\ wIn.token # wIn.configuredToken)
  => (wOut.state = "rejected" /\ wOut.status = 401 /\ wOut.started = <<>>)

\* a merge-request `open` event without the header was rejected although a
\* token is configured
C21_Witness ==
  /\ wIn.provider = "gitlab" /\ wIn.configuredToken = "secret"
  /\ wIn.token = "undefined"
  /\ wIn.kind = "merge_request" /\ wIn.action = "open"
  /\ wOut.state = "rejected" /\ wOut.status = 401 /\ wOut.started = <<>>

\* the events the claim calls qualifying
Qualifying(r) ==
  IF r.provider = "gitlab"
  THEN r.kind = "merge_request" /\ r.action \in {"open", "update"}
  ELSE r.action \in {"opened", "synchronize"}

\* C22: an accepted webhook event starts exactly one review, with the event's
\* project id, request number and user 'system', if it is a qualifying event,
\* and starts none and answers 'Event ignored' otherwise.
C22_OneReviewPerQualifyingEvent ==
  (wOut.state # "none" /\ wOut # Unauthorized) =>
    IF Qualifying(wIn)
    THEN /\ Len(wOut.started) = 1
         /\ wOut.started[1].mergeRequestId = wIn.number
         /\ wOut.started[1].userId = "system"
         /\ wOut.started[1].projectId =
              (IF wIn.provider = "gitlab" THEN toString(wIn.project) ELSE wIn.project)
    ELSE wOut.started = <<>> /\ wOut.state = "answered" /\ wOut.message = "Event ignored"

\* review t has returned an outcome with status FAILED
EndedFailed(t) ==
  /\ task[t].pc = "returned"
  /\ task[t].out.state = "returned"
  /\ task[t].out.status = "FAILED"

\* C23: when a review ends FAILED, no comment of that run is on the request:
\* the provider accepted none of its submissions.
C23_FailedRunPostedNothing ==
  \A t \in Tasks :
    EndedFailed(t) =>
      /\ task[t].accepted = 0
      /\ {n \in notes[req[t]] : n.by = t} = {}

\* C24: when the second review of a request ends FAILED because the diff
\* fetch or the model call failed, every machine-authored comment the first
\* review left on the request is still there (the request has had as many
\* posts as it holds machine-authored comments).
C24_FailedRunLeavesRequest ==
  ( /\ EndedFailed(2)
    /\ task[2].err[1] \in DiffOrModelFailures )
  => Cardinality(MachineAuthored(req[2])) = nextId[req[2]] - 1

\* C25: every comment a provider client has posted on a request (positioned
\* comment, plain note or summary) is one that the clearPreviousComments of
\* the same client identifies on the endpoint it was posted to.
C25_OwnPostsRecognised ==
  \A r \in Requests :
    \A n \in MachineAuthored(r) :
      n \in IdentifyAi(prov, n.ep, {x \in notes[r] : x.ep = n.ep})

\* the fixed markers of machine-authored comments
Markers ==
  {MarkerAiCodeReview, MarkerSummaryHeading, MarkerBoldCodeReview,
   MarkerCodeReviewColon, MarkerBoldCodeReviewColon}

HasMarker(body) == \E m \in Markers : Includes(body, m)

\* C26: when clearPreviousComments is through and every call it made has
\* succeeded, no comment whose body contains a marker is left on the request.
C26_ClearLeavesNoMarkedNote ==
  \A t \in Tasks :
    (task[t].pc = "diff" /\ task[t].clean) =>
      \A n \in notes[req[t]] : ~HasMarker(n.body)

\* the comments of the listing that review t is deleting from
Listed(t) == {n \in notes[req[t]] : n.ep = ClearEndpoint(prov, task[t].phase)}

\* the ids review t has still to delete
ToDelete(t) == {task[t].todo[k] : k \in 1..Len(task[t].todo)}

\* C27: clearPreviousComments issues a delete for a comment if and only if
\* its body contains one of the fixed markers: a comment waiting for its
\* delete has a marker, and while every call so far has succeeded every
\* listed comment with a marker is waiting for its delete.
C27_DeletedIffMarked ==
  \A t \in Tasks :
    task[t].pc = "clear_delete" =>
      \A n \in Listed(t) :
        /\ n.id \in ToDelete(t) => HasMarker(n.body)
        /\ (task[t].clean /\ HasMarker(n.body)) => n.id \in ToDelete(t)

\* the reviews whose machine-authored comments request r holds
RunsOn(r) == {n.by : n \in {x \in notes[r] : HasMarker(x.body)}}

\* C28: once two overlapping reviews of the same request have both finished,
\* the request holds machine-authored comments of at most one of them (even
\* when no call of either clearPreviousComments failed).
C28_OverlapLeavesOneRun ==
  (/\ sched = "conc" /\ req[1] = req[2]
   /\ \A t \in Tasks : task[t].pc = "returned" /\ task[t].clean)
    => Cardinality(RunsOn(req[1])) <= 1

\* the provider implementation, API base URL and token of a vcsType
OwnProvider(vcsType) ==
  IF vcsType = "github"
  THEN [calledBy |-> "GithubRepository",
        apiBaseUrl |-> Constructed.github.apiBaseUrl,
        apiToken |-> Constructed.github.apiToken]
  ELSE [calledBy |-> "GitlabRepository",
        apiBaseUrl |-> Constructed.gitlab.apiBaseUrl,
        apiToken |-> Constructed.gitlab.apiToken]

\* C29: whatever createReview requests came before, the calls of a request
\* are made by the provider implementation of its own vcsType, against that
\* provider's API base URL and with that provider's token.
C29_ServedByOwnProvider ==
  served # NoService =>
    /\ served.calledBy = OwnProvider(served.vcsType).calledBy
    /\ served.apiBaseUrl = OwnProvider(served.vcsType).apiBaseUrl
    /\ served.apiToken = OwnProvider(served.vcsType).apiToken

\* the entries of a listing that are neither removed nor binary, in order
RECURSIVE Reviewable(_)
Reviewable(filesData) ==
  IF filesData = <<>> THEN <<>>
  ELSE (IF Skipped(Head(filesData)) THEN <<>> ELSE <<Head(filesData).filename>>)
         \o Reviewable(Tail(filesData))

\* C30: when getMergeRequestFiles of a GitHub repository returns, it returns
\* a list with one CodeFile for every listed file that is neither removed
\* nor binary, in listing order (the empty list when there is none).
C30_OneCodeFilePerReviewableFile ==
  gOut.state \in {"returned", "undefined"} =>
    /\ gOut.state = "returned"
    /\ [k \in 1..Len(gOut.files) |-> gOut.files[k].path] = Reviewable(gIn)

\* getMergeRequestFiles threw because the content of a file could not be had
ThrewForContent ==
  gOut.state = "threw" /\ Includes(gOut.message, <<"Failed to get file content: ">>)

\* C31: a file content that cannot be fetched never makes getMergeRequestFiles
\* fail: the call returns, and the file is in the list with empty content.
C31_ContentFailureTolerated == ~ThrewForContent

\* review t returned COMPLETED, the model had given a summary, and no call
\* of the run failed
CompletedWithSummary(t) ==
  /\ task[t].out.state = "returned" /\ task[t].out.status = "COMPLETED"
  /\ task[t].summary # <<>>
  /\ task[t].clean

\* C32: a review that ends COMPLETED with a non-empty model summary has
\* submitted that summary to the request exactly once.
C32_SummarySubmittedOnce ==
  \A t \in Tasks : CompletedWithSummary(t) => task[t].summaryPosts = 1

\* a diff-header line (`---`, `+++`) or the no-newline marker
HeaderOrMarker(line) ==
  \/ startsWith(line, <<"-", "-", "-">>)
  \/ startsWith(line, <<"+", "+", "+">>)
  \/ startsWith(line, <<"\\">>)

\* C33: the parsers of the repositories and of the adapter make no
\* line-change record from a diff-header line or from the no-newline marker
\* (the cursors move only where a record is made).
C33_HeadersAndMarkerSkipped ==
  (dOut.done /\ dParser \in ThreeArgumentParsers) =>
    \A k \in 1..Len(dOut.changes) : ~HeaderOrMarker(dIn[dOut.from[k]])

\* C34: for every text, lines before the first hunk header included, an
\* ADDED record of parsePatch / parseDetailedDiff carries a new line number
\* and no old line number, and a DELETED record carries no new line number.
C34_AddedHasNewLineNumber ==
  (dOut.done /\ dParser \in FourArgumentParsers) =>
    \A k \in 1..Len(dOut.changes) :
      LET c == dOut.changes[k]
      IN /\ c.type = ADDED => (c.newLineNumber.t = "number" /\ c.oldLineNumber = Null)
         /\ c.type = DELETED => c.newLineNumber = Null

\* index of the first hunk header of a text that the header expression
\* matches (one past the end when there is none)
RECURSIVE FirstHeaderFrom(_, _)
FirstHeaderFrom(text, i) ==
  IF i > Len(text) \/ text[i].match THEN i ELSE FirstHeaderFrom(text, i + 1)
FirstHeader(text) == FirstHeaderFrom(text, 1)

\* C34 (amended): an ADDED record of parsePatch / parseDetailedDiff never
\* carries an old line number and a DELETED record never a new one; an ADDED
\* record carries a new line number, and a DELETED record an old one, exactly
\* when its line stands after the first hunk header of the text.
C34_NumbersAfterFirstHeader ==
  (dOut.done /\ dParser \in FourArgumentParsers) =>
    \A k \in 1..Len(dOut.changes) :
      LET c == dOut.changes[k]
          after == dOut.from[k] > FirstHeader(dIn)
      IN /\ c.type = ADDED =>
              (c.oldLineNumber = Null /\ (c.newLineNumber.t = "number" <=> after)
               /\ (~after => c.newLineNumber = Null))
         /\ c.type = DELETED =>
              (c.newLineNumber = Null /\ (c.oldLineNumber.t = "number" <=> after)
               /\ (~after => c.oldLineNumber = Null))

\* a text with an added line before its hunk header and one after it, parsed
C34_Witness ==
  /\ dOut.done /\ dParser \in FourArgumentParsers
  /\ \E j, k \in 1..Len(dOut.changes) :
       /\ dOut.changes[j].type = ADDED /\ dOut.from[j] < FirstHeader(dIn)
       /\ dOut.changes[k].type = ADDED /\ dOut.from[k] > FirstHeader(dIn)
       /\ dOut.changes[k].newLineNumber.t = "number"

\* JSON.parse failed on the cleaned text and the comment expression of
\* manualJsonRepair matches nowhere in it
NothingRecovered ==
  /\ pOut.state # "none"
  /\ pOut.via = "repaired"
  /\ RegexComments(fixJsonString(SliceJson(pRaw))) = <<>>

\* C35: when the strict parse fails and the regex fallback recovers no
\* comment, analyzeCode resolves with an empty comment list and a summary;
\* it does not reject.
C35_NothingRecoveredStillResolves ==
  NothingRecovered =>
    /\ pOut.state = "resolved"
    /\ pOut.comments = <<>>
    /\ pOut.summary # <<>>

============================================================================
